------------------------- MODULE EventSignalProofs -------------------------
(***************************************************************************)
(* Proofs about EventSignal for any sets of workers and any bounds: the    *)
(* credit accounting of PendingWake and the absence of lost wakeups; and   *)
(* about PanelSessions, for any number of clicks and messages: what the    *)
(* panel shows as busy has something behind it that will end it.           *)
(***************************************************************************)
EXTENDS EventSignal, PanelSessions, FiniteSetTheorems, TLAPS

\* The senders that hold a reservation in the send states f.
HandsOf(f) == {t \in Senders : f[t] = "reserved"}

\* Why the loop cannot sleep over a message.  A flag that is set while the loop
\* is going to sleep has a wake behind it; a flag that is clear has a sender
\* behind it that is still to swap it, or the continuation deadline.
FlagHasWake ==
    loop \in {"load", "asleep"} /\ notification =>
        proxy > 0 \/ \E t \in Senders : pc[t] = "wake"

SleepHasSender ==
    loop = "asleep" /\ ~notification /\ queue # << >> =>
        deadline \/ \E t \in Senders : pc[t] = "queued"

\* The inductive invariant.
SignalInv == TypeOK /\ CreditsBalance /\ FlagHasWake /\ SleepHasSender

-----------------------------------------------------------------------------
(* Lemmas on the send states. *)

\* The senders are finitely many, and so are those with a reservation.
LEMMA HandsFinite ==
    \A f : IsFiniteSet(HandsOf(f)) /\ Cardinality(HandsOf(f)) \in Nat
<1>1. IsFiniteSet({UI})
  BY FS_Singleton
<1>2. IsFiniteSet(Senders)
  BY <1>1, FS_Union, SignalAssumption DEF Senders
<1>3. ASSUME NEW f PROVE IsFiniteSet(HandsOf(f))
  <2>1. HandsOf(f) \subseteq Senders
    BY DEF HandsOf
  <2> QED
    BY <1>2, <2>1, FS_Subset
<1> QED
  BY <1>3, FS_CardinalityType

\* Reserving a credit adds one hand (send_admitted, the UI lane of send).
LEMMA HandTaken ==
    ASSUME NEW f \in [Senders -> SendState], NEW t \in Senders,
           f[t] # "reserved"
    PROVE  Cardinality(HandsOf([f EXCEPT ![t] = "reserved"]))
             = Cardinality(HandsOf(f)) + 1
<1>1. HandsOf([f EXCEPT ![t] = "reserved"]) = HandsOf(f) \cup {t}
  BY DEF HandsOf
<1>2. t \notin HandsOf(f)
  BY DEF HandsOf
<1> QED
  BY <1>1, <1>2, HandsFinite, FS_AddElement

\* Leaving the reserved state removes one hand (send_reserved).
LEMMA HandGiven ==
    ASSUME NEW f \in [Senders -> SendState], NEW t \in Senders,
           f[t] = "reserved", NEW s, s # "reserved"
    PROVE  /\ Cardinality(HandsOf([f EXCEPT ![t] = s]))
                = Cardinality(HandsOf(f)) - 1
           /\ Cardinality(HandsOf(f)) > 0
<1>1. HandsOf([f EXCEPT ![t] = s]) = HandsOf(f) \ {t}
  BY DEF HandsOf
<1>2. t \in HandsOf(f)
  BY DEF HandsOf
<1>3. /\ Cardinality(HandsOf(f) \ {t}) = Cardinality(HandsOf(f)) - 1
      /\ HandsOf(f) # {}
  BY <1>2, HandsFinite, FS_RemoveElement
<1>4. Cardinality(HandsOf(f)) # 0
  BY <1>3, HandsFinite, FS_EmptySet
<1>5. Cardinality(HandsOf(f)) \in Nat
  BY HandsFinite
<1>6. Cardinality(HandsOf(f)) > 0
  BY <1>4, <1>5
<1> QED
  BY <1>1, <1>3, <1>6

\* Any other move of one sender leaves the hands alone.
LEMMA HandKept ==
    ASSUME NEW f \in [Senders -> SendState], NEW t \in Senders,
           f[t] # "reserved", NEW s, s # "reserved"
    PROVE  HandsOf([f EXCEPT ![t] = s]) = HandsOf(f)
BY DEF HandsOf

\* A notification moves only a waiter: neither a reservation nor a sender on
\* its way to wake the loop is disturbed (message_received's notify_one).
LEMMA NotifyOneKeeps ==
    ASSUME NEW f \in [Senders -> SendState], NEW g \in NotifyOne(f)
    PROVE  /\ g \in [Senders -> SendState]
           /\ HandsOf(g) = HandsOf(f)
           /\ \A t \in Senders : f[t] \in {"wake", "queued"} => g[t] = f[t]
<1>1. CASE g = f
  BY <1>1
<1>2. CASE \E t \in Workers : IsWaiting(f[t]) /\ g = [f EXCEPT ![t] = Resumed(f[t])]
  <2>1. PICK w \in Workers :
               IsWaiting(f[w]) /\ g = [f EXCEPT ![w] = Resumed(f[w])]
    BY <1>2
  <2>2. /\ w \in Senders
        /\ f[w] \in {"waiting", "hinting"}
        /\ Resumed(f[w]) \in {"hint", "admit"}
    BY <2>1 DEF Senders, IsWaiting, Resumed
  <2>3. g \in [Senders -> SendState]
    BY <2>1, <2>2 DEF SendState
  <2>4. HandsOf(g) = HandsOf(f)
    BY <2>1, <2>2, HandKept
  <2> QED
    BY <2>1, <2>2, <2>3, <2>4
<1> QED
  BY <1>1, <1>2 DEF NotifyOne

\* The same for the notify_all of the receiver's drop.
LEMMA NotifyAllKeeps ==
    ASSUME NEW f \in [Senders -> SendState]
    PROVE  /\ NotifyAll(f) \in [Senders -> SendState]
           /\ HandsOf(NotifyAll(f)) = HandsOf(f)
<1>1. \A t \in Senders :
         IF IsWaiting(f[t]) THEN NotifyAll(f)[t] \in {"hint", "admit"}
                            ELSE NotifyAll(f)[t] = f[t]
  BY DEF NotifyAll, Resumed
<1>2. NotifyAll(f) \in [Senders -> SendState]
  BY <1>1 DEF NotifyAll, Resumed, SendState
<1> QED
  BY <1>1, <1>2 DEF HandsOf, IsWaiting

-----------------------------------------------------------------------------
(* The invariant is inductive. *)

\* Initially nothing is queued, reserved or owed.
LEMMA SignalInit == Init => SignalInv
<1> SUFFICES ASSUME Init PROVE SignalInv
  OBVIOUS
<1>1. TypeOK
  <2>1. /\ 0 \in 0 .. MaxAdmitted
        /\ 0 \in 0 .. UiBurst
    BY SignalAssumption
  <2>2. << >> \in Seq(Senders)
    OBVIOUS
  <2> QED
    BY <2>1, <2>2 DEF Init, TypeOK, SendState, LoopState
<1>2. InHand = {}
  BY DEF Init, InHand
<1>3. CreditsBalance
  BY <1>2, FS_EmptySet DEF Init, CreditsBalance, Unacknowledged
<1> QED
  BY <1>1, <1>3 DEF Init, SignalInv, FlagHasWake, SleepHasSender

\* Every action of the senders and of the loop preserves the invariant.
LEMMA SignalStep == SignalInv /\ [Next]_vars => SignalInv'
<1> SUFFICES ASSUME SignalInv, [Next]_vars PROVE SignalInv'
  OBVIOUS
<1> USE DEF SignalInv
<1>h. /\ InHand = HandsOf(pc)
      /\ InHand' = HandsOf(pc')
      /\ Cardinality(HandsOf(pc)) \in Nat
  BY HandsFinite DEF InHand, HandsOf
<1>t. /\ pc \in [Senders -> SendState]
      /\ messages \in Nat /\ Len(queue) \in Nat
      /\ \A w \in Workers : w \in Senders
      /\ UI \in Senders
  BY DEF TypeOK, Senders
<1>1. ASSUME NEW w \in Workers, StartSend(w) PROVE SignalInv'
  <2>1. HandsOf(pc') = HandsOf(pc)
    BY <1>1, <1>t, HandKept DEF StartSend, Goto
  <2>2. CreditsBalance'
    BY <1>1, <1>h, <2>1 DEF StartSend, CreditsBalance, Unacknowledged, loopVars
  <2>3. TypeOK'
    BY <1>1, <1>t DEF StartSend, Goto, TypeOK, SendState, loopVars
  <2>4. FlagHasWake' /\ SleepHasSender'
    BY <1>1, <1>t
       DEF StartSend, Goto, TypeOK, FlagHasWake, SleepHasSender, loopVars
  <2> QED
    BY <2>2, <2>3, <2>4
<1>2. ASSUME NEW w \in Workers, HintCheck(w) PROVE SignalInv'
  <2>1. HandsOf(pc') = HandsOf(pc)
    BY <1>2, <1>t, HandKept DEF HintCheck, Goto
  <2>2. CreditsBalance'
    BY <1>2, <1>h, <2>1 DEF HintCheck, CreditsBalance, Unacknowledged, loopVars
  <2>3. TypeOK'
    BY <1>2, <1>t DEF HintCheck, Goto, TypeOK, SendState, loopVars
  <2>4. FlagHasWake' /\ SleepHasSender'
    BY <1>2, <1>t
       DEF HintCheck, Goto, TypeOK, FlagHasWake, SleepHasSender, loopVars
  <2> QED
    BY <2>2, <2>3, <2>4
<1>3. ASSUME NEW w \in Workers, WaitTimesOut(w) PROVE SignalInv'
  <2>1. HandsOf(pc') = HandsOf(pc)
    BY <1>3, <1>t, HandKept DEF WaitTimesOut, Goto
  <2>2. CreditsBalance'
    BY <1>3, <1>h, <2>1
       DEF WaitTimesOut, CreditsBalance, Unacknowledged, loopVars
  <2>3. TypeOK'
    BY <1>3, <1>t DEF WaitTimesOut, Goto, TypeOK, SendState, loopVars
  <2>4. FlagHasWake' /\ SleepHasSender'
    BY <1>3, <1>t
       DEF WaitTimesOut, Goto, TypeOK, FlagHasWake, SleepHasSender, loopVars
  <2> QED
    BY <2>2, <2>3, <2>4
<1>4. ASSUME NEW w \in Workers, SpuriousWake(w) PROVE SignalInv'
  <2>1. HandsOf(pc') = HandsOf(pc)
    BY <1>4, <1>t, HandKept DEF SpuriousWake, IsWaiting, Resumed, Goto
  <2>2. CreditsBalance'
    BY <1>4, <1>h, <2>1
       DEF SpuriousWake, IsWaiting, Resumed, CreditsBalance, Unacknowledged,
           loopVars
  <2>3. TypeOK'
    BY <1>4, <1>t
       DEF SpuriousWake, IsWaiting, Resumed, Goto, TypeOK, SendState, loopVars
  <2>4. FlagHasWake' /\ SleepHasSender'
    BY <1>4, <1>t
       DEF SpuriousWake, IsWaiting, Resumed, Goto, TypeOK, FlagHasWake,
           SleepHasSender, loopVars
  <2> QED
    BY <2>2, <2>3, <2>4
<1>5. ASSUME NEW w \in Workers, DeadlinePasses(w) PROVE SignalInv'
  <2>1. CreditsBalance'
    BY <1>5, <1>h DEF DeadlinePasses, CreditsBalance, Unacknowledged, loopVars
  <2>2. TypeOK' /\ FlagHasWake' /\ SleepHasSender'
    BY <1>5 DEF DeadlinePasses, TypeOK, FlagHasWake, SleepHasSender, loopVars
  <2> QED
    BY <2>1, <2>2
<1>6. ASSUME NEW w \in Workers, Admit(w) PROVE SignalInv'
  <2>1. CASE messages' = messages /\ \E s \in {"returned", "hint", "waiting"} : Goto(w, s)
    <3>1. PICK s \in {"returned", "hint", "waiting"} : Goto(w, s)
      BY <2>1
    <3>2. HandsOf(pc') = HandsOf(pc)
      BY <1>6, <1>t, <3>1, HandKept DEF Admit, Goto
    <3>3. CreditsBalance'
      BY <1>6, <1>h, <2>1, <3>2
         DEF Admit, CreditsBalance, Unacknowledged, loopVars
    <3>4. TypeOK'
      BY <1>6, <1>t, <2>1, <3>1 DEF Admit, Goto, TypeOK, SendState, loopVars
    <3>5. FlagHasWake' /\ SleepHasSender'
      BY <1>6, <1>t, <3>1
         DEF Admit, Goto, FlagHasWake, SleepHasSender, loopVars
    <3> QED
      BY <3>3, <3>4, <3>5
  <2>2. CASE messages' = messages + 1 /\ Goto(w, "reserved")
    <3>1. Cardinality(HandsOf(pc')) = Cardinality(HandsOf(pc)) + 1
      BY <1>6, <1>t, <2>2, HandTaken DEF Admit, Goto
    <3>2. CreditsBalance'
      BY <1>6, <1>h, <1>t, <2>2, <3>1
         DEF Admit, CreditsBalance, Unacknowledged, loopVars
    <3>3. TypeOK'
      BY <1>6, <1>t, <2>2 DEF Admit, Goto, TypeOK, SendState, loopVars
    <3>4. FlagHasWake' /\ SleepHasSender'
      BY <1>6, <1>t, <2>2
         DEF Admit, Goto, FlagHasWake, SleepHasSender, loopVars
    <3> QED
      BY <3>2, <3>3, <3>4
  <2> QED
    BY <1>6, <2>1, <2>2 DEF Admit
<1>7. ASSUME UiSend PROVE SignalInv'
  <2>1. Cardinality(HandsOf(pc')) = Cardinality(HandsOf(pc)) + 1
    BY <1>7, <1>t, HandTaken DEF UiSend, Goto
  <2>2. CreditsBalance'
    BY <1>7, <1>h, <1>t, <2>1 DEF UiSend, CreditsBalance, Unacknowledged
  <2>3. TypeOK'
    BY <1>7, <1>t, SignalAssumption DEF UiSend, Goto, TypeOK, SendState
  <2>4. FlagHasWake' /\ SleepHasSender'
    BY <1>7 DEF UiSend, FlagHasWake, SleepHasSender
  <2> QED
    BY <2>2, <2>3, <2>4
<1>8. ASSUME NEW t \in Senders, RawSend(t) PROVE SignalInv'
  <2>1. Cardinality(HandsOf(pc')) = Cardinality(HandsOf(pc)) - 1
    BY <1>8, <1>t, HandGiven DEF RawSend, Goto
  <2>2. queue' \in Seq(Senders) /\ Len(queue') = Len(queue) + 1
    BY <1>8 DEF RawSend, TypeOK
  <2>3. CreditsBalance'
    BY <1>8, <1>h, <1>t, <2>1, <2>2
       DEF RawSend, CreditsBalance, Unacknowledged, loopVars
  <2>4. TypeOK'
    BY <1>8, <1>t, <2>2 DEF RawSend, Goto, TypeOK, SendState, loopVars
  <2>5. FlagHasWake' /\ SleepHasSender'
    BY <1>8, <1>t DEF RawSend, Goto, FlagHasWake, SleepHasSender, loopVars
  <2> QED
    BY <2>3, <2>4, <2>5
<1>9. ASSUME NEW t \in Senders, RawSendRefused(t) PROVE SignalInv'
  <2> DEFINE f == [pc EXCEPT ![t] = Finished(t)]
  <2>1. f \in [Senders -> SendState] /\ Finished(t) # "reserved"
    BY <1>t DEF Finished, SendState
  <2>2. /\ Cardinality(HandsOf(f)) = Cardinality(HandsOf(pc)) - 1
        /\ Cardinality(HandsOf(pc)) > 0
    <3>1. pc[t] = "reserved"
      BY <1>9 DEF RawSendRefused
    <3>2. \A s : s # "reserved" =>
             /\ Cardinality(HandsOf([pc EXCEPT ![t] = s]))
                  = Cardinality(HandsOf(pc)) - 1
             /\ Cardinality(HandsOf(pc)) > 0
      BY <1>t, <3>1, HandGiven
    <3> QED
      BY <2>1, <3>2
  <2>3. pc' \in NotifyOne(f) /\ messages' = messages - 1
    BY <1>9 DEF RawSendRefused, MessageReceived
  <2> HIDE DEF f
  <2>4. /\ pc' \in [Senders -> SendState]
        /\ HandsOf(pc') = HandsOf(f)
        /\ \A u \in Senders : f[u] \in {"wake", "queued"} => pc'[u] = f[u]
    BY <2>1, <2>3, NotifyOneKeeps
  <2>5. messages' \in Nat /\ CreditsBalance'
    BY <1>9, <1>h, <1>t, <2>2, <2>3, <2>4
       DEF RawSendRefused, CreditsBalance, Unacknowledged, loopVars
  <2>6. TypeOK'
    BY <1>9, <2>4, <2>5 DEF RawSendRefused, TypeOK, loopVars
  <2>7. \A u \in Senders : pc[u] \in {"wake", "queued"} => pc'[u] = pc[u]
    BY <1>9, <1>t, <2>4 DEF f, RawSendRefused
  <2>8. FlagHasWake' /\ SleepHasSender'
    BY <1>9, <2>7 DEF RawSendRefused, FlagHasWake, SleepHasSender, loopVars
  <2> QED
    BY <2>5, <2>6, <2>8
<1>10. ASSUME NEW t \in Senders, SwapNotification(t) PROVE SignalInv'
  <2>1. HandsOf(pc') = HandsOf(pc)
    BY <1>10, <1>t, HandKept DEF SwapNotification, Goto, Finished
  <2>2. CreditsBalance'
    BY <1>10, <1>h, <2>1
       DEF SwapNotification, CreditsBalance, Unacknowledged, loopVars
  <2>3. TypeOK'
    BY <1>10, <1>t
       DEF SwapNotification, Goto, Finished, TypeOK, SendState, loopVars
  <2>4. SleepHasSender'
    BY <1>10 DEF SwapNotification, SleepHasSender
  <2>5. CASE notification
    BY <1>10, <1>t, <2>2, <2>3, <2>4, <2>5
       DEF SwapNotification, Goto, FlagHasWake, loopVars
  <2>6. CASE ~notification
    <3>1. pc'[t] = "wake"
      BY <1>10, <1>t, <2>6 DEF SwapNotification, Goto
    <3> QED
      BY <2>2, <2>3, <2>4, <3>1 DEF FlagHasWake
  <2> QED
    BY <2>5, <2>6
<1>11. ASSUME NEW t \in Senders, Wake(t) PROVE SignalInv'
  <2>1. HandsOf(pc') = HandsOf(pc)
    BY <1>11, <1>t, HandKept DEF Wake, Goto, Finished
  <2>2. CreditsBalance'
    BY <1>11, <1>h, <2>1 DEF Wake, CreditsBalance, Unacknowledged, loopVars
  <2>3. TypeOK'
    BY <1>11, <1>t DEF Wake, Goto, Finished, TypeOK, SendState, loopVars
  <2>4. FlagHasWake' /\ SleepHasSender'
    BY <1>11, <1>t
       DEF Wake, Goto, TypeOK, FlagHasWake, SleepHasSender, loopVars
  <2> QED
    BY <2>2, <2>3, <2>4
<1>12. ASSUME EndWait PROVE SignalInv'
  <2>1. CreditsBalance'
    BY <1>12, <1>h DEF EndWait, CreditsBalance, Unacknowledged, sendVars
  <2>2. TypeOK'
    BY <1>12, SignalAssumption DEF EndWait, TypeOK, LoopState, sendVars
  <2>3. FlagHasWake' /\ SleepHasSender'
    BY <1>12 DEF EndWait, FlagHasWake, SleepHasSender, sendVars
  <2> QED
    BY <2>1, <2>2, <2>3
<1>13. ASSUME DispatchUser PROVE SignalInv'
  <2>1. CreditsBalance'
    BY <1>13, <1>h
       DEF DispatchUser, Dispatch, BudgetOf, CreditsBalance, Unacknowledged,
           sendVars
  <2>2. TypeOK'
    BY <1>13, SignalAssumption
       DEF DispatchUser, Dispatch, BudgetOf, TypeOK, LoopState, sendVars
  <2>3. FlagHasWake' /\ SleepHasSender'
    BY <1>13
       DEF DispatchUser, Dispatch, BudgetOf, FlagHasWake, SleepHasSender,
           sendVars
  <2> QED
    BY <2>1, <2>2, <2>3
<1>14. ASSUME DispatchInput PROVE SignalInv'
  <2>1. CreditsBalance'
    BY <1>14, <1>h
       DEF DispatchInput, Dispatch, BudgetOf, CreditsBalance, Unacknowledged,
           sendVars
  <2>2. TypeOK'
    BY <1>14, SignalAssumption
       DEF DispatchInput, Dispatch, BudgetOf, TypeOK, LoopState, sendVars
  <2>3. FlagHasWake' /\ SleepHasSender'
    BY <1>14
       DEF DispatchInput, Dispatch, BudgetOf, FlagHasWake, SleepHasSender,
           sendVars
  <2> QED
    BY <2>1, <2>2, <2>3
<1>15. ASSUME DispatchAboutToWait PROVE SignalInv'
  <2>1. CreditsBalance'
    BY <1>15, <1>h
       DEF DispatchAboutToWait, Dispatch, BudgetOf, CreditsBalance,
           Unacknowledged, sendVars
  <2>2. TypeOK'
    BY <1>15, SignalAssumption
       DEF DispatchAboutToWait, Dispatch, BudgetOf, TypeOK, LoopState, sendVars
  <2>3. FlagHasWake' /\ SleepHasSender'
    BY <1>15
       DEF DispatchAboutToWait, Dispatch, BudgetOf, FlagHasWake, SleepHasSender,
           sendVars
  <2> QED
    BY <2>1, <2>2, <2>3
<1>16. ASSUME DispatchLoopExiting PROVE SignalInv'
  <2>1. CreditsBalance'
    BY <1>16, <1>h
       DEF DispatchLoopExiting, Dispatch, BudgetOf, CreditsBalance,
           Unacknowledged, sendVars
  <2>2. TypeOK'
    BY <1>16, SignalAssumption
       DEF DispatchLoopExiting, Dispatch, BudgetOf, TypeOK, LoopState, sendVars
  <2>3. FlagHasWake' /\ SleepHasSender'
    BY <1>16
       DEF DispatchLoopExiting, Dispatch, BudgetOf, FlagHasWake, SleepHasSender,
           sendVars
  <2> QED
    BY <2>1, <2>2, <2>3
<1>17. ASSUME Handled PROVE SignalInv'
  <2>1. CreditsBalance'
    BY <1>17, <1>h DEF Handled, CreditsBalance, Unacknowledged, sendVars
  <2>2. TypeOK'
    BY <1>17, SignalAssumption DEF Handled, TypeOK, LoopState, sendVars
  <2>3. FlagHasWake' /\ SleepHasSender'
    BY <1>17 DEF Handled, FlagHasWake, SleepHasSender, sendVars
  <2> QED
    BY <2>1, <2>2, <2>3
<1>18. ASSUME EndDrain PROVE SignalInv'
  <2>1. CreditsBalance'
    BY <1>18, <1>h DEF EndDrain, CreditsBalance, Unacknowledged, sendVars
  <2>2. TypeOK'
    BY <1>18, SignalAssumption DEF EndDrain, TypeOK, LoopState, sendVars
  <2>3. FlagHasWake' /\ SleepHasSender'
    BY <1>18 DEF EndDrain, FlagHasWake, SleepHasSender, sendVars
  <2> QED
    BY <2>1, <2>2, <2>3
<1>19. ASSUME FinishTurnStore PROVE SignalInv'
  <2>1. CreditsBalance'
    BY <1>19, <1>h DEF FinishTurnStore, CreditsBalance, Unacknowledged, sendVars
  <2>2. TypeOK'
    BY <1>19, SignalAssumption DEF FinishTurnStore, TypeOK, LoopState, sendVars
  <2>3. FlagHasWake' /\ SleepHasSender'
    BY <1>19 DEF FinishTurnStore, FlagHasWake, SleepHasSender, sendVars
  <2> QED
    BY <2>1, <2>2, <2>3
<1>20. ASSUME DropRawReceiver PROVE SignalInv'
  <2>1. CreditsBalance'
    BY <1>20, <1>h DEF DropRawReceiver, CreditsBalance, Unacknowledged, sendVars
  <2>2. TypeOK'
    BY <1>20, SignalAssumption DEF DropRawReceiver, TypeOK, LoopState, sendVars
  <2>3. FlagHasWake' /\ SleepHasSender'
    BY <1>20 DEF DropRawReceiver, FlagHasWake, SleepHasSender, sendVars
  <2> QED
    BY <2>1, <2>2, <2>3
<1>21. ASSUME TryRecv PROVE SignalInv'
  <2>1. queue' \in Seq(Senders) /\ Len(queue') = Len(queue) - 1
    BY <1>21 DEF TryRecv, TypeOK
  <2>2. CreditsBalance'
    BY <1>21, <1>h, <1>t, <2>1
       DEF TryRecv, CreditsBalance, Unacknowledged, sendVars
  <2>3. TypeOK'
    BY <1>21, <2>1, SignalAssumption DEF TryRecv, TypeOK, LoopState, sendVars
  <2>4. FlagHasWake' /\ SleepHasSender'
    BY <1>21 DEF TryRecv, FlagHasWake, SleepHasSender
  <2> QED
    BY <2>2, <2>3, <2>4
<1>22. ASSUME Acknowledge PROVE SignalInv'
  <2>1. /\ pc' \in [Senders -> SendState]
        /\ HandsOf(pc') = HandsOf(pc)
        /\ messages' = messages - 1
    BY <1>22, <1>t, NotifyOneKeeps DEF Acknowledge, MessageReceived
  <2>2. messages' \in Nat /\ CreditsBalance'
    BY <1>22, <1>h, <1>t, <2>1
       DEF Acknowledge, CreditsBalance, Unacknowledged
  <2>3. TypeOK'
    BY <1>22, <2>1, <2>2 DEF Acknowledge, TypeOK, LoopState
  <2>4. FlagHasWake' /\ SleepHasSender'
    BY <1>22 DEF Acknowledge, FlagHasWake, SleepHasSender
  <2> QED
    BY <2>2, <2>3, <2>4
<1>23. ASSUME FinishTurnLoad PROVE SignalInv'
  <2>1. CreditsBalance'
    BY <1>23, <1>h DEF FinishTurnLoad, CreditsBalance, Unacknowledged, sendVars
  <2>2. TypeOK'
    BY <1>23 DEF FinishTurnLoad, TypeOK, LoopState, sendVars
  <2>3. FlagHasWake'
    BY <1>23 DEF FinishTurnLoad, FlagHasWake, sendVars
  <2>4. SleepHasSender'
    <3>1. messages = 0 => Len(queue) = 0
      BY <1>23, <1>h, <1>t DEF FinishTurnLoad, CreditsBalance, Unacknowledged
    <3>2. messages = 0 => queue = << >>
      BY <3>1 DEF TypeOK
    <3> QED
      BY <1>23, <3>2 DEF FinishTurnLoad, SleepHasSender
  <2> QED
    BY <2>1, <2>2, <2>3, <2>4
<1>24. ASSUME DropReceiver PROVE SignalInv'
  <2>1. /\ pc' \in [Senders -> SendState]
        /\ HandsOf(pc') = HandsOf(pc)
    BY <1>24, <1>t, NotifyAllKeeps DEF DropReceiver
  <2>2. CreditsBalance'
    BY <1>24, <1>h, <2>1 DEF DropReceiver, CreditsBalance, Unacknowledged
  <2>3. TypeOK'
    BY <1>24, <2>1 DEF DropReceiver, TypeOK, LoopState
  <2>4. FlagHasWake' /\ SleepHasSender'
    BY <1>24 DEF DropReceiver, FlagHasWake, SleepHasSender
  <2> QED
    BY <2>2, <2>3, <2>4
<1>25. ASSUME UNCHANGED vars PROVE SignalInv'
  <2>1. CreditsBalance'
    BY <1>25, <1>h DEF vars, CreditsBalance, Unacknowledged
  <2> QED
    BY <1>25, <2>1 DEF vars, TypeOK, FlagHasWake, SleepHasSender
<1> QED
  BY <1>1, <1>2, <1>3, <1>4, <1>5, <1>6, <1>7, <1>8, <1>9, <1>10, <1>11,
     <1>12, <1>13, <1>14, <1>15, <1>16, <1>17, <1>18, <1>19, <1>20, <1>21, <1>22, <1>23, <1>24, <1>25
     DEF Next, WorkerStep, SenderStep, LoopStep, Awake, NativeEvent

\* The invariant implies the property the runs check.
LEMMA SignalImplies == SignalInv => NoLostWakeup
BY DEF SignalInv, NoLostWakeup, FlagHasWake, SleepHasSender, TypeOK

\* The credit counter of PendingWake is exact in every reachable state, for any
\* set of workers and any bound: message_received never underflows.
THEOREM CreditsAlwaysBalance == Spec => []CreditsBalance
<1>1. SignalInv => CreditsBalance
  BY DEF SignalInv
<1> QED
  BY <1>1, SignalInit, SignalStep, PTL DEF Spec

\* The event loop never goes to sleep over a message that nobody will wake it
\* for (send_reserved's coalesced wake against finish_turn).
THEOREM WakeupNeverLost == Spec => []NoLostWakeup
BY SignalInit, SignalStep, SignalImplies, PTL DEF Spec

\* Every variable keeps its type; in particular no credit count goes negative.
THEOREM SignalTypeCorrect == Spec => []TypeOK
<1>1. SignalInv => TypeOK
  BY DEF SignalInv
<1> QED
  BY <1>1, SignalInit, SignalStep, PTL DEF Spec

-----------------------------------------------------------------------------
(* The bound of the workers' flood.                                         *)

\* The places of the queue that hold a message of a worker.
WorkerPlaces(q) == {i \in DOMAIN q : q[i] \in Workers}

\* They are finitely many, and no more than the queue is long.
LEMMA PlacesBounded ==
    ASSUME NEW q \in Seq(Senders)
    PROVE  /\ IsFiniteSet(WorkerPlaces(q))
           /\ Cardinality(WorkerPlaces(q)) \in Nat
           /\ Cardinality(WorkerPlaces(q)) <= Len(q)
<1>1. IsFiniteSet(1 .. Len(q)) /\ Cardinality(1 .. Len(q)) = Len(q)
  <2>1. Len(q) \in Nat /\ Len(q) \in Int /\ 1 \in Int
    OBVIOUS
  <2>2. /\ IsFiniteSet(1 .. Len(q))
        /\ Cardinality(1 .. Len(q)) = IF 1 <= Len(q) THEN Len(q) - 1 + 1 ELSE 0
    BY <2>1, FS_Interval
  <2> QED
    BY <2>1, <2>2
<1>2. WorkerPlaces(q) \subseteq 1 .. Len(q)
  BY DEF WorkerPlaces
<1> QED
  BY <1>1, <1>2, FS_Subset, FS_CardinalityType

\* The raw send of a worker fills one place more, that of the UI thread none.
LEMMA PlaceAppended ==
    ASSUME NEW q \in Seq(Senders), NEW t \in Senders
    PROVE  Cardinality(WorkerPlaces(Append(q, t)))
             = Cardinality(WorkerPlaces(q)) + (IF t \in Workers THEN 1 ELSE 0)
<1>1. /\ Append(q, t) \in Seq(Senders) /\ Len(Append(q, t)) = Len(q) + 1
      /\ DOMAIN Append(q, t) = 1 .. Len(q) + 1
      /\ \A i \in 1 .. Len(q) : Append(q, t)[i] = q[i]
      /\ Append(q, t)[Len(q) + 1] = t
      /\ DOMAIN q = 1 .. Len(q) /\ Len(q) \in Nat
  OBVIOUS
<1>2. CASE t \in Workers
  <2>1. WorkerPlaces(Append(q, t)) = WorkerPlaces(q) \cup {Len(q) + 1}
    BY <1>1, <1>2 DEF WorkerPlaces
  <2>2. Len(q) + 1 \notin WorkerPlaces(q)
    BY <1>1 DEF WorkerPlaces
  <2> QED
    BY <1>2, <2>1, <2>2, PlacesBounded, FS_AddElement
<1>3. CASE t \notin Workers
  <2>1. WorkerPlaces(Append(q, t)) = WorkerPlaces(q)
    BY <1>1, <1>3 DEF WorkerPlaces
  <2> QED
    BY <1>3, <2>1, PlacesBounded
<1> QED
  BY <1>2, <1>3

\* A receive fills no place.
LEMMA PlacesOfTail ==
    ASSUME NEW q \in Seq(Senders), q # << >>
    PROVE  Cardinality(WorkerPlaces(Tail(q))) <= Cardinality(WorkerPlaces(q))
<1> DEFINE next == [i \in WorkerPlaces(Tail(q)) |-> i + 1]
<1>1. /\ Tail(q) \in Seq(Senders) /\ DOMAIN Tail(q) = 1 .. Len(q) - 1
      /\ \A i \in DOMAIN Tail(q) : i \in Nat /\ i + 1 \in DOMAIN q /\ Tail(q)[i] = q[i + 1]
  OBVIOUS
<1>2. next \in Injection(WorkerPlaces(Tail(q)), WorkerPlaces(q))
  BY <1>1 DEF WorkerPlaces, Injection, IsInjective
<1> QED
  BY <1>2, PlacesBounded, FS_Injection

\* The workers with a reservation, in the send states f.
WorkerHands(f) == HandsOf(f) \ {UI}

LEMMA WorkerHandsFinite ==
    \A f : /\ IsFiniteSet(WorkerHands(f)) /\ Cardinality(WorkerHands(f)) \in Nat
           /\ Cardinality(WorkerHands(f)) <= Cardinality(HandsOf(f))
BY HandsFinite, FS_Subset, FS_CardinalityType DEF WorkerHands

\* A worker that reserves a credit is one hand more; one that gives its credit or its
\* message away is one hand less.
LEMMA WorkerHandMoves ==
    ASSUME NEW f \in [Senders -> SendState], NEW t \in Senders, NEW s
    PROVE  /\ t \in Workers /\ f[t] # "reserved" /\ s = "reserved"
                => Cardinality(WorkerHands([f EXCEPT ![t] = s])) = Cardinality(WorkerHands(f)) + 1
           /\ t \in Workers /\ f[t] = "reserved" /\ s # "reserved"
                => Cardinality(WorkerHands([f EXCEPT ![t] = s])) = Cardinality(WorkerHands(f)) - 1
           /\ t = UI => WorkerHands([f EXCEPT ![t] = s]) = WorkerHands(f)
<1> DEFINE g == [f EXCEPT ![t] = s]
<1>1. ASSUME t \in Workers, f[t] # "reserved", s = "reserved"
      PROVE  Cardinality(WorkerHands(g)) = Cardinality(WorkerHands(f)) + 1
  <2>1. WorkerHands(g) = WorkerHands(f) \cup {t} /\ t \notin WorkerHands(f)
    BY <1>1, SignalAssumption DEF WorkerHands, HandsOf
  <2> QED
    BY <2>1, WorkerHandsFinite, FS_AddElement
<1>2. ASSUME t \in Workers, f[t] = "reserved", s # "reserved"
      PROVE  Cardinality(WorkerHands(g)) = Cardinality(WorkerHands(f)) - 1
  <2>1. WorkerHands(g) = WorkerHands(f) \ {t} /\ t \in WorkerHands(f)
    BY <1>2, SignalAssumption DEF WorkerHands, HandsOf
  <2> QED
    BY <2>1, WorkerHandsFinite, FS_RemoveElement
<1>3. ASSUME t = UI PROVE WorkerHands(g) = WorkerHands(f)
  BY <1>3 DEF WorkerHands, HandsOf
<1> QED
  BY <1>1, <1>2, <1>3

\* The bound is inductive next to the exact credits: a worker is admitted only when the
\* credits of all senders are below it.
LEMMA FloodStep == SignalInv /\ WorkerFloodBounded /\ [Next]_vars => WorkerFloodBounded'
<1> SUFFICES ASSUME SignalInv, WorkerFloodBounded, [Next]_vars PROVE WorkerFloodBounded'
  OBVIOUS
<1> DEFINE places == Cardinality(WorkerPlaces(queue))
<1> DEFINE hands == Cardinality(WorkerHands(pc))
<1>b. places + hands <= MaxPending
  BY DEF WorkerFloodBounded, WorkerPlaces, WorkerHands, InHand, HandsOf
<1>p. /\ WorkerFloodBounded'
           <=> Cardinality(WorkerPlaces(queue')) + Cardinality(WorkerHands(pc')) <= MaxPending
  BY DEF WorkerFloodBounded, WorkerPlaces, WorkerHands, InHand, HandsOf
<1>t. /\ pc \in [Senders -> SendState] /\ queue \in Seq(Senders)
      /\ places \in Nat /\ hands \in Nat /\ MaxPending \in Nat
      /\ \A w \in Workers : w \in Senders
  BY PlacesBounded, WorkerHandsFinite, SignalAssumption DEF SignalInv, TypeOK, Senders
\* A step that leaves the reservations and the queue as they are.
<1>k. ASSUME HandsOf(pc') = HandsOf(pc), queue' = queue PROVE WorkerFloodBounded'
  BY <1>k, <1>b, <1>p DEF WorkerHands
<1>1. ASSUME NEW w \in Workers, WorkerStep(w) \/ DeadlinePasses(w) \/ SpuriousWake(w)
      PROVE  WorkerFloodBounded'
  <2>1. CASE Admit(w) /\ Goto(w, "reserved") /\ messages' = messages + 1 /\ HasCredit
    <3>1. places + hands <= messages
      <4>1. /\ messages = Len(queue) + Cardinality(HandsOf(pc)) + Unacknowledged
            /\ Unacknowledged \in Nat /\ Cardinality(HandsOf(pc)) \in Nat /\ Len(queue) \in Nat
        <5>1. InHand = HandsOf(pc)
          BY DEF InHand, HandsOf
        <5>2. Unacknowledged \in Nat /\ Len(queue) \in Nat
          BY <1>t DEF Unacknowledged
        <5> QED
          BY <5>1, <5>2, HandsFinite DEF SignalInv, CreditsBalance
      <4> QED
        BY <1>t, <4>1, PlacesBounded, WorkerHandsFinite
    <3>2. Cardinality(WorkerHands(pc')) = hands + 1 /\ queue' = queue
      BY <1>t, <2>1, WorkerHandMoves DEF Admit, Goto
    <3>3. messages < MaxPending /\ messages \in Nat
      BY <2>1 DEF HasCredit, SignalInv, TypeOK
    <3> QED
      BY <1>p, <1>t, <3>1, <3>2, <3>3
  <2>2. CASE \E s \in SendState \ {"reserved"} : pc[w] # "reserved" /\ Goto(w, s) /\ queue' = queue
    <3>1. PICK s \in SendState \ {"reserved"} :
                 pc[w] # "reserved" /\ Goto(w, s) /\ queue' = queue
      BY <2>2
    <3>2. w \in Senders /\ s # "reserved" /\ pc' = [pc EXCEPT ![w] = s]
      BY <1>t, <3>1 DEF Goto
    <3>3. HandsOf(pc') = HandsOf(pc)
      BY <1>t, <3>1, <3>2, HandKept
    <3> QED
      BY <1>k, <3>1, <3>3
  <2>3. CASE DeadlinePasses(w)
    BY <1>k, <2>3 DEF DeadlinePasses
  <2> QED
    BY <1>1, <2>1, <2>2, <2>3
       DEF WorkerStep, StartSend, Admit, HintCheck, WaitTimesOut, SpuriousWake, IsWaiting, Resumed,
           SendState
<1>2. ASSUME NEW t \in Senders, RawSend(t) PROVE WorkerFloodBounded'
  <2>1. /\ pc[t] = "reserved" /\ pc' = [pc EXCEPT ![t] = "queued"] /\ queue' = Append(queue, t)
        /\ t \in Workers \/ t = UI
    BY <1>2 DEF RawSend, Goto, Senders
  <2>2. Cardinality(WorkerPlaces(queue')) = places + (IF t \in Workers THEN 1 ELSE 0)
    BY <1>t, <2>1, PlaceAppended
  <2>3. t \in Workers => Cardinality(WorkerHands(pc')) = hands - 1
    BY <1>t, <2>1, WorkerHandMoves
  <2>4. t = UI => WorkerHands(pc') = WorkerHands(pc) /\ t \notin Workers
    BY <1>t, <2>1, WorkerHandMoves, SignalAssumption
  <2> QED
    BY <1>b, <1>p, <1>t, <2>1, <2>2, <2>3, <2>4
<1>3. ASSUME NEW t \in Senders, RawSendRefused(t) PROVE WorkerFloodBounded'
  <2> DEFINE f == [pc EXCEPT ![t] = Finished(t)]
  <2>1. f \in [Senders -> SendState] /\ Finished(t) # "reserved"
    BY <1>t DEF Finished, SendState
  <2>2. pc' \in NotifyOne(f) /\ queue' = queue
    BY <1>3 DEF RawSendRefused, MessageReceived
  <2>3. Cardinality(WorkerHands(f)) <= hands
    <3>1. pc[t] = "reserved" /\ (t \in Workers \/ t = UI)
      BY <1>3 DEF RawSendRefused, Senders
    <3>2. \A s : /\ t \in Workers /\ s # "reserved"
                      => Cardinality(WorkerHands([pc EXCEPT ![t] = s])) = hands - 1
                 /\ t = UI => WorkerHands([pc EXCEPT ![t] = s]) = WorkerHands(pc)
      BY <1>t, <3>1, WorkerHandMoves
    <3>3. /\ t \in Workers => Cardinality(WorkerHands(f)) = hands - 1
          /\ t = UI => WorkerHands(f) = WorkerHands(pc)
      BY <2>1, <3>2
    <3> HIDE DEF f
    <3>4. t \in Workers => Cardinality(WorkerHands(f)) <= hands
      BY <1>t, <3>3
    <3>5. t = UI => Cardinality(WorkerHands(f)) <= hands
      BY <1>t, <3>3
    <3> QED
      BY <3>1, <3>4, <3>5
  <2> HIDE DEF f
  <2>4. WorkerHands(pc') = WorkerHands(f)
    BY <2>1, <2>2, NotifyOneKeeps DEF WorkerHands
  <2> QED
    BY <1>b, <1>p, <1>t, <2>2, <2>3, <2>4, WorkerHandsFinite
<1>4. ASSUME NEW t \in Senders, SwapNotification(t) \/ Wake(t) PROVE WorkerFloodBounded'
  <2>1. PICK s \in SendState \ {"reserved"} :
               pc[t] # "reserved" /\ pc' = [pc EXCEPT ![t] = s] /\ queue' = queue
    BY <1>4 DEF SwapNotification, Wake, Goto, Finished, SendState
  <2>2. HandsOf(pc') = HandsOf(pc)
    BY <1>t, <2>1, HandKept
  <2> QED
    BY <1>k, <2>1, <2>2
<1>5. ASSUME UiSend PROVE WorkerFloodBounded'
  <2>1. WorkerHands(pc') = WorkerHands(pc) /\ queue' = queue
    BY <1>5, <1>t, WorkerHandMoves DEF UiSend, Goto, Senders
  <2> QED
    BY <1>b, <1>p, <2>1
<1>6. ASSUME TryRecv PROVE WorkerFloodBounded'
  <2>1. Cardinality(WorkerPlaces(queue')) <= places /\ Cardinality(WorkerPlaces(queue')) \in Nat
    <3>1. queue # << >> /\ queue' = Tail(queue)
      BY <1>6 DEF TryRecv
    <3>2. Tail(queue) \in Seq(Senders)
      BY <1>t, <3>1
    <3> QED
      BY <1>t, <3>1, <3>2, PlacesOfTail, PlacesBounded
  <2>2. pc' = pc
    BY <1>6 DEF TryRecv, sendVars
  <2> QED
    BY <1>b, <1>p, <1>t, <2>1, <2>2
<1>7. ASSUME Acknowledge PROVE WorkerFloodBounded'
  BY <1>7, <1>k, <1>t, NotifyOneKeeps DEF Acknowledge, MessageReceived
<1>8. ASSUME DropReceiver PROVE WorkerFloodBounded'
  BY <1>8, <1>k, <1>t, NotifyAllKeeps DEF DropReceiver
<1>9. ASSUME \/ NativeEvent \/ DispatchInput \/ DispatchLoopExiting \/ Awake \/ DispatchUser
             \/ DispatchAboutToWait \/ Handled \/ EndDrain \/ FinishTurnStore \/ FinishTurnLoad
             \/ DropRawReceiver \/ UNCHANGED vars
      PROVE  WorkerFloodBounded'
  BY <1>9, <1>k
     DEF NativeEvent, EndWait, DispatchInput, DispatchLoopExiting, Awake, DispatchUser, Dispatch,
         DispatchAboutToWait, Handled, EndDrain, FinishTurnStore, FinishTurnLoad, DropRawReceiver,
         sendVars, vars
<1> QED
  BY <1>1, <1>2, <1>3, <1>4, <1>5, <1>6, <1>7, <1>8, <1>9 DEF Next, SenderStep, LoopStep

\* However many workers flood the loop, they never have more than MAX_PENDING_WORKER_MESSAGES
\* messages reserved or queued, and what the UI lane adds gives them no room.
THEOREM WorkersStayBounded == Spec => []WorkerFloodBounded
<1>1. Init => WorkerFloodBounded
  <2> SUFFICES ASSUME Init PROVE WorkerFloodBounded
    OBVIOUS
  <2>1. {i \in DOMAIN queue : queue[i] \in Workers} = {} /\ InHand \ {UI} = {}
    BY DEF Init, InHand
  <2> QED
    BY <2>1, FS_EmptySet, SignalAssumption DEF WorkerFloodBounded
<1> QED
  BY <1>1, SignalInit, SignalStep, FloodStep, PTL DEF Spec

-----------------------------------------------------------------------------
(* PanelSessions.                                                          *)

Jobs == {"exited", "stopped", "cancelled", "rolledback", "failed"}
PanelMessages == {"start", "check", "stop", "force", "terminal", "close", "create"}

\* Every message of the panel is one click's, and every attempt to open a window is one
\* message's.
Attempted == clicks.windows + slot.lost + (IF slot.pending THEN 1 ELSE 0) + Len(inbox)

PanelTypes ==
    /\ target \in {"own", "slot"} /\ saved \in BOOLEAN /\ asked \in BOOLEAN
    /\ known \subseteq {"stale", "blocked"}
    /\ shown \in {NoState} \cup Shown
    /\ task \in [{"launch", "stop"} -> {"none", "active", "done"}]
    /\ list \in [active : BOOLEAN, stoppable : {"no", "active", "pending"}]
    /\ op \in {NoOp} \cup Operations
    /\ program \in {"none", "running", "stopping", "offered"}
    /\ jobs \subseteq Jobs
    /\ slot \in [pending : BOOLEAN, window : Nat, jobs : SUBSET {"told", "silent"}, lost : Nat]
    /\ row \in [pending : BOOLEAN, closing : BOOLEAN, window : Nat]
    /\ clicks \in [all : Nat, windows : Nat]
    /\ inbox \in Seq(PanelMessages) /\ batch \in {"none", "clean", "dirty"}

\* A window that is there is the one in the row, which is not newer than the newest.
Counted ==
    /\ clicks.all <= MaxClicks /\ Attempted <= clicks.all /\ Len(inbox) <= MaxInbox
    /\ row.window <= clicks.windows /\ slot.window <= clicks.windows
    /\ slot.window # 0 => row.window = slot.window

\* A launch is alone with its profile: nothing runs, and the only cleanups are those of
\* programs that ended by themselves or were stopped.
LaunchAlone ==
    op # NoOp => /\ op.stage # "check" => op.launch
                 /\ op.launch => program = "none" /\ jobs \subseteq {"exited", "stopped"}

\* Until ownership changes within a batch, the list of profiles to stop is the one it left.
ListCurrent == batch # "dirty" => list.stoppable = Stoppable(op, program)

\* The cleanups whose end is shown.
Telling == jobs \cap {"exited", "stopped", "cancelled"}

BusyKept ==
    saved /\ "stale" \notin known /\ shown # NoState /\ (shown.instance \in Busy \/ shown.force)
        => \/ op # NoOp \/ program # "none" \/ Telling # {}
           \/ Under({"start", "check", "stop", "force"})

LaunchKept ==
    saved /\ "blocked" \notin known /\ task["launch"] = "active"
        => \/ op # NoOp /\ (op.launch \/ op.cancelled)
           \/ "cancelled" \in jobs \/ Under({"start"})

StopKept ==
    task["stop"] = "active"
        => \/ op # NoOp /\ op.cancelled
           \/ program \in {"stopping", "offered"} \/ Telling # {} \/ Under({"stop", "force"})

\* The inductive invariant.
PanelInv ==
    /\ PanelTypes
    /\ Counted
    /\ LaunchAlone
    /\ ListCurrent
    /\ BusyKept
    /\ LaunchKept
    /\ StopKept
    /\ AskedIsBacked
    /\ DisplaysBacked


-----------------------------------------------------------------------------
(* Messages under way, and what is shown.                                  *)

\* What was promised by a message stays promised when another one joins.
Joins(m) ==
    /\ Under({"start", "check", "stop", "force"}) \/ m \in {"start", "check", "stop", "force"}
         => Under({"start", "check", "stop", "force"})'
    /\ Under({"start"}) \/ m = "start" => Under({"start"})'
    /\ Under({"stop", "force"}) \/ m \in {"stop", "force"} => Under({"stop", "force"})'
    /\ Under({"check"}) \/ m = "check" => Under({"check"})'
    /\ Under({"close"}) \/ m = "close" => Under({"close"})'

\* When a message is taken, only what it promised is to be made good now.
Leaves(m) ==
    /\ Under({"start", "check", "stop", "force"})
         => m \in {"start", "check", "stop", "force"} \/ Under({"start", "check", "stop", "force"})'
    /\ Under({"start"}) => m = "start" \/ Under({"start"})'
    /\ Under({"stop", "force"}) => m \in {"stop", "force"} \/ Under({"stop", "force"})'
    /\ Under({"check"}) => m = "check" \/ Under({"check"})'
    /\ Under({"close"}) => m = "close" \/ Under({"close"})'

LEMMA InboxKept == inbox' = inbox => Joins("nothing")
BY DEF Joins, Under

LEMMA MessageJoins ==
    ASSUME NEW m \in PanelMessages, inbox \in Seq(PanelMessages), inbox' = Append(inbox, m)
    PROVE  inbox' \in Seq(PanelMessages) /\ Len(inbox') = Len(inbox) + 1 /\ Joins(m)
<1>1. /\ inbox' \in Seq(PanelMessages) /\ Len(inbox') = Len(inbox) + 1 /\ Len(inbox) \in Nat
      /\ inbox'[Len(inbox')] = m /\ \A i \in 1 .. Len(inbox) : inbox'[i] = inbox[i]
  OBVIOUS
<1>2. ASSUME NEW S, Under(S) \/ m \in S PROVE \E i \in 1 .. Len(inbox') : inbox'[i] \in S
  BY <1>1, <1>2 DEF Under
<1> QED
  BY <1>1, <1>2 DEF Joins, Under

LEMMA MessageLeaves ==
    ASSUME NEW m, inbox \in Seq(PanelMessages), Receive(m)
    PROVE  /\ inbox' \in Seq(PanelMessages) /\ Len(inbox') = Len(inbox) - 1 /\ Leaves(m)
           /\ m \in PanelMessages /\ Len(inbox) \in Nat
<1>1. /\ inbox' \in Seq(PanelMessages) /\ Len(inbox') = Len(inbox) - 1 /\ Len(inbox) \in Nat
      /\ inbox[1] = m /\ m \in PanelMessages
      /\ \A i \in 1 .. Len(inbox) : i # 1 => i - 1 \in 1 .. Len(inbox') /\ inbox'[i - 1] = inbox[i]
  BY DEF Receive
<1>2. ASSUME NEW S, Under(S) PROVE m \in S \/ \E i \in 1 .. Len(inbox') : inbox'[i] \in S
  BY <1>1, <1>2 DEF Under
<1> QED
  BY <1>1, <1>2 DEF Leaves, Under

LEMMA ShownStarting ==
    ASSUME NEW starting, starting = [instance |-> "Starting", force |-> FALSE]
    PROVE  starting \in Shown /\ starting # NoState /\ starting.instance = "Starting" /\ ~starting.force
<1>1. starting \in Shown
  BY DEF Shown, Instances
<1> QED
  BY <1>1, PanelSessionsAssumption

LEMMA Labels ==
    ASSUME NEW state \in {NoState} \cup Shown, NEW instance \in Instances
    PROVE  /\ Labelled(state, instance) \in Shown /\ Labelled(state, instance) # NoState
           /\ Labelled(state, instance).instance = instance
           /\ instance # "Stopping" => ~Labelled(state, instance).force
<1> DEFINE force == instance = "Stopping" /\ state # NoState /\ state.force
<1>1. force \in BOOLEAN
  OBVIOUS
<1>2. Labelled(state, instance) = [instance |-> instance, force |-> force]
  BY DEF Labelled
<1>3. instance # "Stopping" => ~force
  OBVIOUS
<1> HIDE DEF force
<1>4. Labelled(state, instance) \in Shown
  BY <1>1, <1>2 DEF Shown
<1> QED
  BY <1>2, <1>3, <1>4, PanelSessionsAssumption


-----------------------------------------------------------------------------
(* Clicks.                                                                 *)

Clicked(m) ==
    /\ clicks' \in [all : Nat, windows : Nat] /\ clicks'.all = clicks.all + 1
    /\ clicks'.windows = clicks.windows /\ clicks.all < MaxClicks
    /\ inbox' \in Seq(PanelMessages) /\ Len(inbox') \in Nat /\ Len(inbox) \in Nat
    /\ Len(inbox') <= Len(inbox) + 1 /\ Len(inbox') <= MaxInbox
    /\ batch = "none" /\ UNCHANGED <<target, op, program, jobs, slot, list, batch, known>>
    /\ Joins(m)

LEMMA ClickFacts ==
    ASSUME PanelInv, NEW m \in PanelMessages \cup {"nothing"}, Click(m)
    PROVE  Clicked(m)
<1> USE DEF PanelInv
<1>1. /\ clicks \in [all : Nat, windows : Nat] /\ inbox \in Seq(PanelMessages)
      /\ Len(inbox) \in Nat /\ Len(inbox) <= MaxInbox
  BY DEF PanelTypes, Counted
<1>2. /\ batch = "none" /\ clicks.all < MaxClicks /\ Len(inbox) < MaxInbox
      /\ clicks' = [clicks EXCEPT !.all = @ + 1]
      /\ inbox' = IF m = "nothing" THEN inbox ELSE Append(inbox, m)
      /\ UNCHANGED <<target, op, program, jobs, slot, list, batch, known>>
  BY DEF Click
<1>3. /\ clicks' \in [all : Nat, windows : Nat] /\ clicks'.all = clicks.all + 1
      /\ clicks'.windows = clicks.windows
  BY <1>1, <1>2
<1>4. CASE m = "nothing"
  BY <1>1, <1>2, <1>3, <1>4, InboxKept, PanelSessionsAssumption DEF Clicked
<1>5. CASE m # "nothing"
  BY <1>1, <1>2, <1>3, <1>5, MessageJoins, PanelSessionsAssumption DEF Clicked
<1> QED
  BY <1>4, <1>5


LEMMA ClickCounted ==
    ASSUME PanelInv, slot' = slot, row'.window = row.window, clicks'.windows = clicks.windows,
           clicks'.all = clicks.all + 1, clicks.all < MaxClicks,
           Len(inbox') \in Nat, Len(inbox) \in Nat, Len(inbox') <= Len(inbox) + 1, Len(inbox') <= MaxInbox
    PROVE  Counted'
<1> USE DEF PanelInv
<1>1. /\ clicks.all \in Nat /\ clicks.windows \in Nat /\ slot.lost \in Nat
      /\ row.window \in Nat /\ slot.window \in Nat
  BY DEF PanelTypes
<1>2. PICK n \in Nat : n = clicks.windows + slot.lost + (IF slot.pending THEN 1 ELSE 0)
  BY <1>1
<1>3. Attempted' = n + Len(inbox') /\ Attempted = n + Len(inbox)
  BY <1>2 DEF Attempted
<1>4. n + Len(inbox) <= clicks.all
  BY <1>3 DEF Counted
<1>5. Attempted' <= clicks'.all /\ clicks'.all <= MaxClicks
  BY <1>1, <1>3, <1>4, PanelSessionsAssumption
<1>6. row'.window <= clicks'.windows /\ slot'.window <= clicks'.windows /\ Len(inbox') <= MaxInbox
  BY DEF Counted
<1>7. slot'.window # 0 => row'.window = slot'.window
  BY DEF Counted
<1> QED
  BY <1>5, <1>6, <1>7 DEF Counted


\* A click to launch shows the start it asks for.
LEMMA ClickLaunchKept ==
    ASSUME PanelInv, ClickLaunch
    PROVE  PanelInv'
<1> USE DEF PanelInv
<1>1. Clicked("start")
  BY ClickFacts DEF ClickLaunch, PanelMessages
<1>2. shown' \in Shown /\ shown' # NoState /\ UNCHANGED <<saved, asked, row>>
  BY Labels DEF ClickLaunch, Show, PanelTypes, Instances
<1>3. task' = [task EXCEPT !["launch"] = "active"]
  BY DEF ClickLaunch
<1>4. PanelTypes'
  BY <1>1, <1>2, <1>3 DEF PanelTypes, Clicked, Joins
<1>5. Counted'
  BY <1>1, <1>2, ClickCounted DEF Clicked
<1>6. LaunchAlone'
  BY <1>1 DEF LaunchAlone, Clicked
<1>7. ListCurrent'
  BY <1>1 DEF Clicked, ListCurrent, Stoppable
<1>8. BusyKept'
  BY <1>1, <1>2 DEF Clicked, Joins, BusyKept, Telling, Busy
<1>9. LaunchKept'
  BY <1>1, <1>2, <1>3 DEF Clicked, Joins, LaunchKept
<1>10. StopKept'
  BY <1>1, <1>3 DEF Clicked, Joins, StopKept, Telling
<1>11. AskedIsBacked'
  BY <1>1, <1>2 DEF Clicked, Joins, AskedIsBacked
<1>12. DisplaysBacked'
  BY <1>1, <1>2 DEF Clicked, Joins, DisplaysBacked
<1> QED
  BY <1>4, <1>5, <1>6, <1>7, <1>8, <1>9, <1>10, <1>11, <1>12

\* A click to check shows a start too.
LEMMA ClickCheckKept ==
    ASSUME PanelInv, ClickCheck
    PROVE  PanelInv'
<1> USE DEF PanelInv
<1>1. Clicked("check")
  BY ClickFacts DEF ClickCheck, PanelMessages
<1>2. shown' \in Shown /\ shown' # NoState /\ UNCHANGED <<saved, asked, row, task>>
  BY Labels DEF ClickCheck, Show, PanelTypes, Instances
<1>3. PanelTypes'
  BY <1>1, <1>2 DEF PanelTypes, Clicked, Joins
<1>4. Counted'
  BY <1>1, <1>2, ClickCounted DEF Clicked
<1>5. LaunchAlone'
  BY <1>1 DEF LaunchAlone, Clicked
<1>6. ListCurrent'
  BY <1>1 DEF Clicked, ListCurrent, Stoppable
<1>7. BusyKept'
  BY <1>1, <1>2 DEF Clicked, Joins, BusyKept, Telling, Busy
<1>8. LaunchKept'
  BY <1>1, <1>2 DEF Clicked, Joins, LaunchKept
<1>9. StopKept'
  BY <1>1, <1>2 DEF Clicked, Joins, StopKept, Telling
<1>10. AskedIsBacked'
  BY <1>1, <1>2 DEF Clicked, Joins, AskedIsBacked
<1>11. DisplaysBacked'
  BY <1>1, <1>2 DEF Clicked, Joins, DisplaysBacked
<1> QED
  BY <1>3, <1>4, <1>5, <1>6, <1>7, <1>8, <1>9, <1>10, <1>11

\* A command of the control API writes nothing of the panel.
LEMMA CommandKept ==
    ASSUME PanelInv, NEW m \in {"start", "check", "stop"}, Click(m),
           UNCHANGED <<saved, shown, task, asked, row>>
    PROVE  PanelInv'
<1> USE DEF PanelInv
<1>1. Clicked(m)
  BY ClickFacts DEF PanelMessages
<1>2. PanelTypes'
  BY <1>1 DEF PanelTypes, Clicked, Joins
<1>3. Counted'
  BY <1>1, ClickCounted DEF Clicked
<1>4. LaunchAlone'
  BY <1>1 DEF LaunchAlone, Clicked
<1>5. ListCurrent'
  BY <1>1 DEF Clicked, ListCurrent, Stoppable
<1>6. BusyKept'
  BY <1>1 DEF Clicked, Joins, BusyKept, Telling, Busy
<1>7. LaunchKept'
  BY <1>1 DEF Clicked, Joins, LaunchKept
<1>8. StopKept'
  BY <1>1 DEF Clicked, Joins, StopKept, Telling
<1>9. AskedIsBacked'
  BY <1>1 DEF Clicked, Joins, AskedIsBacked
<1>10. DisplaysBacked'
  BY <1>1 DEF Clicked, Joins, DisplaysBacked
<1> QED
  BY <1>2, <1>3, <1>4, <1>5, <1>6, <1>7, <1>8, <1>9, <1>10

\* A click to stop is backed by the message it sends.
LEMMA ClickStopKept ==
    ASSUME PanelInv, NEW m \in {"stop", "force"}, Click(m),
           Show("Stopping"), task' = [task EXCEPT !["stop"] = "active"],
           UNCHANGED <<saved, asked, row>>
    PROVE  PanelInv'
<1> USE DEF PanelInv
<1>1. Clicked(m)
  BY ClickFacts DEF PanelMessages
<1>2. shown' \in Shown /\ shown' # NoState
  BY Labels DEF Show, PanelTypes, Instances
<1>3. PanelTypes'
  BY <1>1, <1>2 DEF PanelTypes, Clicked, Joins
<1>4. Counted'
  BY <1>1, ClickCounted DEF Clicked
<1>5. LaunchAlone'
  BY <1>1 DEF LaunchAlone, Clicked
<1>6. ListCurrent'
  BY <1>1 DEF Clicked, ListCurrent, Stoppable
<1>7. BusyKept'
  BY <1>1, <1>2 DEF Clicked, Joins, BusyKept, Telling, Busy
<1>8. LaunchKept'
  BY <1>1 DEF Clicked, Joins, LaunchKept
<1>9. StopKept'
  BY <1>1 DEF Clicked, Joins, StopKept, Telling
<1>10. AskedIsBacked'
  BY <1>1, <1>2 DEF Clicked, Joins, AskedIsBacked
<1>11. DisplaysBacked'
  BY <1>1 DEF Clicked, Joins, DisplaysBacked
<1> QED
  BY <1>3, <1>4, <1>5, <1>6, <1>7, <1>8, <1>9, <1>10, <1>11

\* A click for a terminal changes nothing that is shown.
LEMMA ClickTerminalKept ==
    ASSUME PanelInv, ClickTerminal
    PROVE  PanelInv'
<1> USE DEF PanelInv
<1>1. Clicked("terminal")
  BY ClickFacts DEF ClickTerminal, PanelMessages
<1>2. UNCHANGED <<saved, shown, task, asked, row>>
  BY DEF ClickTerminal
<1>3. PanelTypes'
  BY <1>1, <1>2 DEF PanelTypes, Clicked, Joins
<1>4. Counted'
  BY <1>1, <1>2, ClickCounted DEF Clicked
<1>5. LaunchAlone'
  BY <1>1 DEF LaunchAlone, Clicked
<1>6. ListCurrent'
  BY <1>1 DEF Clicked, ListCurrent, Stoppable
<1>7. BusyKept'
  BY <1>1, <1>2 DEF Clicked, Joins, BusyKept, Telling, Busy
<1>8. LaunchKept'
  BY <1>1, <1>2 DEF Clicked, Joins, LaunchKept
<1>9. StopKept'
  BY <1>1, <1>2 DEF Clicked, Joins, StopKept, Telling
<1>10. AskedIsBacked'
  BY <1>1, <1>2 DEF Clicked, Joins, AskedIsBacked
<1>11. DisplaysBacked'
  BY <1>1, <1>2 DEF Clicked, Joins, DisplaysBacked
<1> QED
  BY <1>3, <1>4, <1>5, <1>6, <1>7, <1>8, <1>9, <1>10, <1>11

\* A validation that is asked for is under way.
LEMMA AutoValidateKept ==
    ASSUME PanelInv, AutoValidate
    PROVE  PanelInv'
<1> USE DEF PanelInv
<1>1. Clicked("check")
  BY ClickFacts DEF AutoValidate, PanelMessages
<1>2. asked' = TRUE /\ UNCHANGED <<saved, shown, task, row>>
  BY DEF AutoValidate
<1>3. PanelTypes'
  BY <1>1, <1>2 DEF PanelTypes, Clicked, Joins
<1>4. Counted'
  BY <1>1, <1>2, ClickCounted DEF Clicked
<1>5. LaunchAlone'
  BY <1>1 DEF LaunchAlone, Clicked
<1>6. ListCurrent'
  BY <1>1 DEF Clicked, ListCurrent, Stoppable
<1>7. BusyKept'
  BY <1>1, <1>2 DEF Clicked, Joins, BusyKept, Telling, Busy
<1>8. LaunchKept'
  BY <1>1, <1>2 DEF Clicked, Joins, LaunchKept
<1>9. StopKept'
  BY <1>1, <1>2 DEF Clicked, Joins, StopKept, Telling
<1>10. AskedIsBacked'
  BY <1>1, <1>2 DEF Clicked, Joins, AskedIsBacked
<1>11. DisplaysBacked'
  BY <1>1, <1>2 DEF Clicked, Joins, DisplaysBacked
<1> QED
  BY <1>3, <1>4, <1>5, <1>6, <1>7, <1>8, <1>9, <1>10, <1>11

\* An edit asks for a new validation.
LEMMA EditKept ==
    ASSUME PanelInv, EditProfile
    PROVE  PanelInv'
<1> USE DEF PanelInv
<1>1. /\ saved /\ shown' = NoState /\ asked' = FALSE /\ batch = "none"
      /\ UNCHANGED <<target, saved, task, list, program, jobs, slot, row, inbox, batch, known>>
  BY DEF EditProfile
<1>2. op' = IF op = NoOp THEN NoOp ELSE [op EXCEPT !.edited = TRUE]
  BY DEF EditProfile
<1>3. /\ op' \in {NoOp} \cup Operations /\ (op' = NoOp <=> op = NoOp)
      /\ op # NoOp => op'.stage = op.stage /\ op'.launch = op.launch /\ op'.cancelled = op.cancelled
  <2>1. CASE op = NoOp
    BY <1>2, <2>1
  <2>2. CASE op # NoOp
    <3>1. op \in Operations /\ op' = [op EXCEPT !.edited = TRUE]
      BY <1>2, <2>2 DEF PanelTypes
    <3>2. /\ op' \in Operations
          /\ op'.stage = op.stage /\ op'.launch = op.launch /\ op'.cancelled = op.cancelled
      BY <3>1 DEF Operations
    <3> QED
      BY <2>2, <3>2, PanelSessionsAssumption
  <2> QED
    BY <2>1, <2>2
<1>4. /\ clicks' \in [all : Nat, windows : Nat] /\ clicks'.all = clicks.all + 1
      /\ clicks'.windows = clicks.windows /\ clicks.all < MaxClicks
  BY DEF EditProfile, PanelTypes
<1>5. Joins("nothing")
  BY <1>1, InboxKept
<1>6. Len(inbox) \in Nat /\ Len(inbox') <= MaxInbox
  BY <1>1 DEF PanelTypes, Counted
<1>7. PanelTypes'
  BY <1>1, <1>2, <1>3, <1>4, <1>5, <1>6 DEF PanelTypes, Joins
<1>8. Counted'
  BY <1>1, <1>4, <1>6, ClickCounted
<1>9. LaunchAlone'
  BY <1>1, <1>2, <1>3 DEF LaunchAlone
<1>10. ListCurrent'
  BY <1>1, <1>2, <1>3 DEF ListCurrent, Stoppable
<1>11. BusyKept'
  BY <1>1, <1>2, <1>3, <1>5, <1>6 DEF Joins, BusyKept, Telling, Busy
<1>12. LaunchKept'
  BY <1>1, <1>2, <1>3, <1>5, <1>6 DEF Joins, LaunchKept
<1>13. StopKept'
  BY <1>1, <1>2, <1>3, <1>5, <1>6 DEF Joins, StopKept, Telling
<1>14. AskedIsBacked'
  BY <1>1, <1>2, <1>3, <1>5, <1>6 DEF Joins, AskedIsBacked
<1>15. DisplaysBacked'
  BY <1>1, <1>5, <1>6 DEF Joins, DisplaysBacked
<1> QED
  BY <1>7, <1>8, <1>9, <1>10, <1>11, <1>12, <1>13, <1>14, <1>15

\* A deleted profile shows nothing that needs an end.
LEMMA DeleteKept ==
    ASSUME PanelInv, Click("nothing"), saved' = FALSE, UNCHANGED <<task, row>>,
           asked' \in BOOLEAN, shown' \in {NoState} \cup Shown
    PROVE  PanelInv'
<1> USE DEF PanelInv
<1>1. Clicked("nothing")
  BY ClickFacts
<1>2. PanelTypes'
  BY <1>1 DEF PanelTypes, Clicked, Joins
<1>3. Counted'
  BY <1>1, ClickCounted DEF Clicked
<1>4. LaunchAlone'
  BY <1>1 DEF LaunchAlone, Clicked
<1>5. ListCurrent'
  BY <1>1 DEF Clicked, ListCurrent, Stoppable
<1>6. BusyKept'
  BY <1>1 DEF Clicked, Joins, BusyKept, Telling, Busy
<1>7. LaunchKept'
  BY <1>1 DEF Clicked, Joins, LaunchKept
<1>8. StopKept'
  BY <1>1 DEF Clicked, Joins, StopKept, Telling
<1>9. AskedIsBacked'
  BY <1>1 DEF Clicked, Joins, AskedIsBacked
<1>10. DisplaysBacked'
  BY <1>1 DEF Clicked, Joins, DisplaysBacked
<1> QED
  BY <1>2, <1>3, <1>4, <1>5, <1>6, <1>7, <1>8, <1>9, <1>10

\* A row shows its display as closing while the request is under way.
LEMMA ClickCloseKept ==
    ASSUME PanelInv, Click("close"), UNCHANGED <<saved, shown, task, asked>>,
           row' = row \/ row' = [row EXCEPT !.closing = TRUE]
    PROVE  PanelInv'
<1> USE DEF PanelInv
<1>1. Clicked("close")
  BY ClickFacts DEF PanelMessages
<1>2. row' \in [pending : BOOLEAN, closing : BOOLEAN, window : Nat] /\ row'.window = row.window /\ row'.pending = row.pending
  BY DEF PanelTypes
<1>3. PanelTypes'
  BY <1>1, <1>2 DEF PanelTypes, Clicked, Joins
<1>4. Counted'
  BY <1>1, <1>2, ClickCounted DEF Clicked
<1>5. LaunchAlone'
  BY <1>1 DEF LaunchAlone, Clicked
<1>6. ListCurrent'
  BY <1>1 DEF Clicked, ListCurrent, Stoppable
<1>7. BusyKept'
  BY <1>1 DEF Clicked, Joins, BusyKept, Telling, Busy
<1>8. LaunchKept'
  BY <1>1 DEF Clicked, Joins, LaunchKept
<1>9. StopKept'
  BY <1>1 DEF Clicked, Joins, StopKept, Telling
<1>10. AskedIsBacked'
  BY <1>1 DEF Clicked, Joins, AskedIsBacked
<1>11. DisplaysBacked'
  BY <1>1, <1>2 DEF Clicked, Joins, DisplaysBacked
<1> QED
  BY <1>3, <1>4, <1>5, <1>6, <1>7, <1>8, <1>9, <1>10, <1>11

\* A click for a new display writes nothing yet.
LEMMA ClickCreateKept ==
    ASSUME PanelInv, ClickCreate
    PROVE  PanelInv'
<1> USE DEF PanelInv
<1>1. Clicked("create")
  BY ClickFacts DEF ClickCreate, PanelMessages
<1>2. UNCHANGED <<saved, shown, task, asked, row>>
  BY DEF ClickCreate
<1>3. PanelTypes'
  BY <1>1, <1>2 DEF PanelTypes, Clicked, Joins
<1>4. Counted'
  BY <1>1, <1>2, ClickCounted DEF Clicked
<1>5. LaunchAlone'
  BY <1>1 DEF LaunchAlone, Clicked
<1>6. ListCurrent'
  BY <1>1 DEF Clicked, ListCurrent, Stoppable
<1>7. BusyKept'
  BY <1>1, <1>2 DEF Clicked, Joins, BusyKept, Telling, Busy
<1>8. LaunchKept'
  BY <1>1, <1>2 DEF Clicked, Joins, LaunchKept
<1>9. StopKept'
  BY <1>1, <1>2 DEF Clicked, Joins, StopKept, Telling
<1>10. AskedIsBacked'
  BY <1>1, <1>2 DEF Clicked, Joins, AskedIsBacked
<1>11. DisplaysBacked'
  BY <1>1, <1>2 DEF Clicked, Joins, DisplaysBacked
<1> QED
  BY <1>3, <1>4, <1>5, <1>6, <1>7, <1>8, <1>9, <1>10, <1>11

LEMMA ClicksKept == PanelInv /\ Clicks => PanelInv'
<1> SUFFICES ASSUME PanelInv, Clicks PROVE PanelInv'
  OBVIOUS
<1>1. CASE ClickStop
  BY <1>1, ClickStopKept DEF ClickStop
<1>2. CASE DeleteProfile \/ ProfileVanishes
  BY <1>2, DeleteKept DEF DeleteProfile, ProfileVanishes, PanelInv, PanelTypes
<1>3. CASE ClickClose
  BY <1>3, ClickCloseKept DEF ClickClose
<1>4. CASE Command
  BY <1>4, CommandKept DEF Command
<1> QED
  BY <1>1, <1>2, <1>3, <1>4, ClickLaunchKept, ClickCheckKept, ClickTerminalKept, AutoValidateKept,
     EditKept, ClickCreateKept DEF Clicks


-----------------------------------------------------------------------------
(* Handlers of the event loop that leave the displays alone.               *)

Left(m) ==
    /\ inbox' \in Seq(PanelMessages) /\ Len(inbox') \in Nat /\ Len(inbox) \in Nat
    /\ Len(inbox') <= Len(inbox) /\ Leaves(m)

LEMMA MessageTaken == ASSUME PanelInv, NEW m, Receive(m) PROVE Left(m)
<1>1. /\ inbox' \in Seq(PanelMessages) /\ Len(inbox') = Len(inbox) - 1 /\ Leaves(m)
      /\ Len(inbox) \in Nat
  BY MessageLeaves DEF PanelInv, PanelTypes
<1>2. Len(inbox') \in Nat
  BY <1>1
<1> QED
  BY <1>1, <1>2 DEF Left

LEMMA NothingTaken == PanelInv /\ inbox' = inbox => Left("nothing")
BY DEF Left, Leaves, Under, PanelInv, PanelTypes

LEMMA HandlerCounted ==
    ASSUME PanelInv, UNCHANGED <<slot, row, clicks>>,
           Len(inbox') \in Nat, Len(inbox) \in Nat, Len(inbox') <= Len(inbox)
    PROVE  Counted'
<1>1. /\ clicks.all \in Nat /\ clicks.windows \in Nat /\ slot.lost \in Nat
  BY DEF PanelInv, PanelTypes
<1>2. PICK n \in Nat : n = clicks.windows + slot.lost + (IF slot.pending THEN 1 ELSE 0)
  BY <1>1
<1>3. Attempted' = n + Len(inbox') /\ Attempted = n + Len(inbox)
  BY <1>2 DEF Attempted
<1>4. n + Len(inbox) <= clicks.all /\ Len(inbox) <= MaxInbox
  BY <1>3 DEF PanelInv, Counted
<1>5. Attempted' <= clicks.all /\ Len(inbox') <= MaxInbox
  BY <1>1, <1>3, <1>4, PanelSessionsAssumption
<1> QED
  BY <1>5 DEF PanelInv, Counted

LEMMA OperationFields ==
    ASSUME NEW launch \in BOOLEAN
    PROVE  /\ Operation(launch) \in Operations /\ Operation(launch) # NoOp
           /\ Operation(launch).stage = "check" /\ Operation(launch).launch = launch
           /\ ~Operation(launch).cancelled
<1>1. Operation(launch) \in Operations
  BY DEF Operation, Operations, Stages
<1> QED
  BY <1>1, PanelSessionsAssumption DEF Operation


\* A check begins, or one is under way already.
LEMMA CheckKept ==
    ASSUME PanelInv, Check
    PROVE  PanelInv'
<1> USE DEF PanelInv
<1>1. Left("check")
  BY MessageTaken DEF Check, Dirty
<1>2. batch' = "dirty" /\ UNCHANGED <<target, saved, shown, task, asked, list, program, jobs, slot, row, clicks, known>>
  BY DEF Check, Dirty
<1>3. /\ op' \in {NoOp} \cup Operations /\ (op' = NoOp => op = NoOp /\ ~saved) /\ (op # NoOp => op' = op)
      /\ op = NoOp /\ op' # NoOp => op'.stage = "check" /\ ~op'.launch
  BY OperationFields DEF Check, PanelTypes
<1>4. PanelTypes'
  BY <1>1, <1>2, <1>3 DEF PanelTypes, Left, Leaves
<1>5. Counted'
  BY <1>1, HandlerCounted DEF Left, Check, Dirty
<1>6. LaunchAlone'
  BY <1>2, <1>3 DEF LaunchAlone
<1>7. ListCurrent'
  BY <1>2, <1>3 DEF ListCurrent, Stoppable
<1>8. BusyKept'
  BY <1>1, <1>2, <1>3 DEF Left, Leaves, BusyKept, Telling, Busy
<1>9. LaunchKept'
  BY <1>1, <1>2, <1>3 DEF Left, Leaves, LaunchKept
<1>10. StopKept'
  BY <1>1, <1>2, <1>3 DEF Left, Leaves, StopKept, Telling
<1>11. AskedIsBacked'
  BY <1>1, <1>2, <1>3 DEF Left, Leaves, AskedIsBacked
<1>12. DisplaysBacked'
  BY <1>1, <1>2 DEF Left, Leaves, DisplaysBacked
<1> QED
  BY <1>4, <1>5, <1>6, <1>7, <1>8, <1>9, <1>10, <1>11, <1>12

\* A cancelled operation ends and says so.
LEMMA CheckedCancelledKept ==
    ASSUME PanelInv, op # NoOp, op.stage = "check", batch' = "dirty", batch # "none",
           UNCHANGED <<target, saved, list, program, jobs, slot, row, inbox, clicks>>, CheckedCancelled
    PROVE  PanelInv'
<1> USE DEF PanelInv
<1>1. Left("nothing")
  BY NothingTaken
<1>2. shown' \in Shown /\ shown'.instance = "Exited" /\ ~shown'.force /\ shown' # NoState
  BY Labels DEF CheckedCancelled, Show, PanelTypes, Instances
<1>3. op' = NoOp /\ UNCHANGED <<asked, known>>
  BY DEF CheckedCancelled
<1>4. /\ task' \in [{"launch", "stop"} -> {"none", "active", "done"}]
      /\ task'["launch"] # "active" /\ task'["stop"] # "active"
  BY DEF CheckedCancelled, CancelledTask, Move, PanelTypes
<1>5. PanelTypes'
  BY <1>1, <1>2, <1>3, <1>4 DEF PanelTypes, Left
<1>6. Counted'
  BY <1>1, HandlerCounted DEF Left
<1>7. LaunchAlone'
  BY <1>3 DEF LaunchAlone
<1>8. ListCurrent'
  BY <1>3 DEF ListCurrent, Stoppable
<1>9. BusyKept'
  BY <1>1, <1>2, <1>3 DEF Left, Leaves, BusyKept, Telling, Busy
<1>10. LaunchKept'
  BY <1>1, <1>3, <1>4 DEF Left, Leaves, LaunchKept
<1>11. StopKept'
  BY <1>1, <1>3, <1>4 DEF Left, Leaves, StopKept, Telling
<1>12. AskedIsBacked'
  BY <1>1, <1>2, <1>3 DEF Left, Leaves, AskedIsBacked
<1>13. DisplaysBacked'
  BY <1>1 DEF Left, Leaves, DisplaysBacked
<1> QED
  BY <1>5, <1>6, <1>7, <1>8, <1>9, <1>10, <1>11, <1>12, <1>13

\* Without its profile an operation ends silently.
LEMMA CheckedWithoutKept ==
    ASSUME PanelInv, op # NoOp, op.stage = "check", batch' = "dirty", batch # "none",
           UNCHANGED <<target, saved, list, program, jobs, slot, row, inbox, clicks>>, CheckedWithoutProfile
    PROVE  PanelInv'
<1> USE DEF PanelInv
<1>1. Left("nothing")
  BY NothingTaken
<1>2. op' = NoOp /\ ~saved /\ ~op.cancelled /\ UNCHANGED <<shown, task, asked, known>>
  BY DEF CheckedWithoutProfile
<1>3. PanelTypes'
  BY <1>1, <1>2 DEF PanelTypes, Left, Leaves
<1>4. Counted'
  BY <1>1, HandlerCounted DEF Left
<1>5. LaunchAlone'
  BY <1>2 DEF LaunchAlone
<1>6. ListCurrent'
  BY <1>2 DEF ListCurrent, Stoppable
<1>7. BusyKept'
  BY <1>1, <1>2 DEF Left, Leaves, BusyKept, Telling, Busy
<1>8. LaunchKept'
  BY <1>1, <1>2 DEF Left, Leaves, LaunchKept
<1>9. StopKept'
  BY <1>1, <1>2 DEF Left, Leaves, StopKept, Telling
<1>10. AskedIsBacked'
  BY <1>1, <1>2 DEF Left, Leaves, AskedIsBacked
<1>11. DisplaysBacked'
  BY <1>1 DEF Left, Leaves, DisplaysBacked
<1> QED
  BY <1>3, <1>4, <1>5, <1>6, <1>7, <1>8, <1>9, <1>10, <1>11

\* An edit in between is checked again, or the launch is refused.
LEMMA CheckedEditedKept ==
    ASSUME PanelInv, op # NoOp, op.stage = "check", batch' = "dirty", batch # "none",
           UNCHANGED <<target, saved, list, program, jobs, slot, row, inbox, clicks>>, CheckedEdited
    PROVE  PanelInv'
<1> USE DEF PanelInv
<1>1. Left("nothing")
  BY NothingTaken
<1>2. ~op.cancelled /\ UNCHANGED <<asked, known>>
  BY DEF CheckedEdited
<1>3. \/ op' = [op EXCEPT !.edited = FALSE] /\ UNCHANGED <<shown, task>>
      \/ op.launch /\ op' = NoOp /\ shown' = Blocked /\ task' = BlockedTask
  BY DEF CheckedEdited
<1>4. Blocked \in Shown /\ Blocked.instance = "None" /\ ~Blocked.force /\ Blocked # NoState
  BY Labels DEF Blocked, PanelTypes, Instances
<1>5. /\ BlockedTask \in [{"launch", "stop"} -> {"none", "active", "done"}]
      /\ BlockedTask["launch"] # "active" /\ BlockedTask["stop"] = task["stop"]
  BY DEF BlockedTask, Move, PanelTypes
<1>6. op \in Operations /\ [op EXCEPT !.edited = FALSE] \in Operations
  BY DEF PanelTypes, Operations
<1>7. op' # NoOp => op' \in Operations /\ op'.stage = op.stage /\ op'.launch = op.launch /\ op'.cancelled = op.cancelled
  BY <1>3, <1>6 DEF Operations
<1>8. [op EXCEPT !.edited = FALSE] # NoOp
  BY <1>6, PanelSessionsAssumption
<1>9. PanelTypes'
  BY <1>1, <1>2, <1>3, <1>4, <1>5, <1>6, <1>7, <1>8 DEF PanelTypes, Left, Leaves
<1>10. Counted'
  BY <1>1, HandlerCounted DEF Left
<1>11. LaunchAlone'
  BY <1>2, <1>3, <1>6, <1>7, <1>8 DEF LaunchAlone
<1>12. ListCurrent'
  BY <1>2, <1>3, <1>6, <1>7, <1>8 DEF ListCurrent, Stoppable
<1>13. BusyKept'
  BY <1>1, <1>2, <1>3, <1>4, <1>5, <1>6, <1>7, <1>8 DEF PanelTypes, LaunchAlone, Left, Leaves,
     BusyKept, Telling, Busy
<1>14. LaunchKept'
  BY <1>1, <1>2, <1>3, <1>5, <1>6, <1>7, <1>8 DEF Left, Leaves, LaunchKept
<1>15. StopKept'
  BY <1>1, <1>2, <1>3, <1>5, <1>6, <1>7, <1>8 DEF Left, Leaves, StopKept, Telling
<1>16. AskedIsBacked'
  BY <1>1, <1>2, <1>3, <1>4, <1>5, <1>6, <1>7, <1>8 DEF PanelTypes, LaunchAlone, Left, Leaves,
     AskedIsBacked
<1>17. DisplaysBacked'
  BY <1>1 DEF Left, Leaves, DisplaysBacked
<1> QED
  BY <1>9, <1>10, <1>11, <1>12, <1>13, <1>14, <1>15, <1>16, <1>17

\* A check that fails ends the operation.
LEMMA CheckedBadlyKept ==
    ASSUME PanelInv, op # NoOp, op.stage = "check", batch' = "dirty", batch # "none",
           UNCHANGED <<target, saved, list, program, jobs, slot, row, inbox, clicks>>, CheckedBadly
    PROVE  PanelInv'
<1> USE DEF PanelInv
<1>1. Left("nothing")
  BY NothingTaken
<1>2. op' = NoOp /\ asked' = FALSE /\ ~op.cancelled /\ UNCHANGED <<known>>
  BY DEF CheckedBadly
<1>3. shown' \in Shown /\ shown'.instance \in {"Failed", "None"} /\ ~shown'.force /\ shown' # NoState
  BY Labels DEF CheckedBadly, Show, PanelTypes, Instances
<1>4. /\ task' \in [{"launch", "stop"} -> {"none", "active", "done"}] /\ task'["stop"] = task["stop"]
      /\ (op.launch /\ task'["launch"] # "active") \/ (~op.launch /\ task' = task)
  BY DEF CheckedBadly, BlockedTask, Move, PanelTypes
<1>5. PanelTypes'
  BY <1>1, <1>2, <1>3, <1>4 DEF PanelTypes, Left
<1>6. Counted'
  BY <1>1, HandlerCounted DEF Left
<1>7. LaunchAlone'
  BY <1>2, <1>4 DEF LaunchAlone
<1>8. ListCurrent'
  BY <1>2, <1>4 DEF ListCurrent, Stoppable
<1>9. BusyKept'
  BY <1>1, <1>2, <1>3, <1>4 DEF Left, Leaves, BusyKept, Telling, Busy
<1>10. LaunchKept'
  BY <1>1, <1>2, <1>4 DEF Left, Leaves, LaunchKept
<1>11. StopKept'
  BY <1>1, <1>2, <1>4 DEF Left, Leaves, StopKept, Telling
<1>12. AskedIsBacked'
  BY <1>1, <1>2, <1>3, <1>4 DEF Left, Leaves, AskedIsBacked
<1>13. DisplaysBacked'
  BY <1>1 DEF Left, Leaves, DisplaysBacked
<1> QED
  BY <1>5, <1>6, <1>7, <1>8, <1>9, <1>10, <1>11, <1>12, <1>13

\* A check that is well resumes its launch, or shows what it found.
LEMMA CheckedWellKept ==
    ASSUME PanelInv, op # NoOp, op.stage = "check", batch' = "dirty", batch # "none",
           UNCHANGED <<target, saved, list, program, jobs, slot, row, inbox, clicks>>, CheckedWell
    PROVE  PanelInv'
<1> USE DEF PanelInv
<1>1. Left("nothing")
  BY NothingTaken
<1>2. asked' = FALSE /\ ~op.cancelled
  BY DEF CheckedWell
<1>3. op \in Operations
  BY DEF PanelTypes
<1>4. /\ shown' \in Shown /\ known' \subseteq {"stale", "blocked"} /\ known \subseteq known'
      /\ ("blocked" \in known' => "blocked" \in known) /\ shown' # NoState
      /\ ~op.launch => /\ shown'.instance \in {"Running", "None"} /\ ~shown'.force
                       /\ shown'.instance = "Running" => program # "none" \/ "stale" \in known'
  BY Labels, ShownStarting DEF CheckedWell, PanelTypes, Instances
<1>5. IF op.launch THEN /\ op' = [op EXCEPT !.stage = "checked", !.resume = TRUE]
                             /\ task' = [task EXCEPT !["launch"] = Move(@, "active")]
                        ELSE op' = NoOp /\ UNCHANGED task
  BY DEF CheckedWell
<1>6. [op EXCEPT !.stage = "checked", !.resume = TRUE] \in Operations
  BY <1>3 DEF Operations, Stages
<1>7. [op EXCEPT !.stage = "checked", !.resume = TRUE] # NoOp
  BY <1>6, PanelSessionsAssumption
<1>8. op.launch => op' \in Operations /\ op'.stage = "checked" /\ op'.launch /\ op'.cancelled = op.cancelled
  BY <1>3, <1>5, <1>6 DEF Operations
<1>9. /\ op' \in {NoOp} \cup Operations /\ (op' = NoOp <=> ~op.launch)
      /\ op' # NoOp => op'.stage = "checked" /\ op'.launch /\ ~op'.cancelled
  BY <1>2, <1>5, <1>7, <1>8
<1>10. /\ task' \in [{"launch", "stop"} -> {"none", "active", "done"}] /\ task'["stop"] = task["stop"]
       /\ op.launch \/ task' = task
  BY <1>5 DEF Move, PanelTypes
<1>11. PanelTypes'
  BY <1>1, <1>2, <1>3, <1>4, <1>5, <1>6, <1>7, <1>8, <1>9, <1>10 DEF PanelTypes, Left
<1>12. Counted'
  BY <1>1, HandlerCounted DEF Left
<1>13. LaunchAlone'
  BY <1>2, <1>3, <1>4, <1>5, <1>6, <1>7, <1>8, <1>9, <1>10 DEF LaunchAlone
<1>14. ListCurrent'
  BY <1>2, <1>3, <1>4, <1>5, <1>6, <1>7, <1>8, <1>9, <1>10 DEF ListCurrent, Stoppable
<1>15. BusyKept'
  BY <1>1, <1>2, <1>3, <1>4, <1>5, <1>6, <1>7, <1>8, <1>9, <1>10 DEF Left, Leaves, BusyKept,
     Telling, Busy
<1>16. LaunchKept'
  BY <1>1, <1>2, <1>3, <1>4, <1>5, <1>6, <1>7, <1>8, <1>9, <1>10 DEF Left, Leaves, LaunchKept
<1>17. StopKept'
  BY <1>1, <1>2, <1>3, <1>4, <1>5, <1>6, <1>7, <1>8, <1>9, <1>10 DEF Left, Leaves, StopKept, Telling
<1>18. AskedIsBacked'
  BY <1>1, <1>2, <1>3, <1>4, <1>5, <1>6, <1>7, <1>8, <1>9, <1>10 DEF Left, Leaves, AskedIsBacked
<1>19. DisplaysBacked'
  BY <1>1 DEF Left, Leaves, DisplaysBacked
<1> QED
  BY <1>11, <1>12, <1>13, <1>14, <1>15, <1>16, <1>17, <1>18, <1>19

LEMMA CheckedKept == PanelInv /\ Checked => PanelInv'
BY CheckedCancelledKept, CheckedWithoutKept, CheckedEditedKept, CheckedBadlyKept, CheckedWellKept
   DEF Checked, Dirty


\* A display that comes up goes to its launch, or is rolled back.
LEMMA DisplayStartedKept ==
    ASSUME PanelInv, DisplayStarted
    PROVE  PanelInv'
<1> USE DEF PanelInv
<1>1. Left("nothing")
  BY NothingTaken DEF DisplayStarted
<1>2. /\ op # NoOp /\ op.stage = "display" /\ op.launch /\ batch' = "dirty" /\ op \in Operations
      /\ UNCHANGED <<target, saved, asked, list, program, slot, row, inbox, clicks, known>>
  BY DEF DisplayStarted, Dirty, PanelTypes, LaunchAlone
<1>3. [op EXCEPT !.stage = "launch"] \in Operations
  BY <1>2 DEF Operations, Stages
<1>4. [op EXCEPT !.stage = "launch"] # NoOp
  BY <1>3, PanelSessionsAssumption
<1>5. Blocked \in Shown /\ Blocked.instance = "None" /\ ~Blocked.force /\ Blocked # NoState
  BY Labels DEF Blocked, PanelTypes, Instances
<1>6. /\ BlockedTask \in [{"launch", "stop"} -> {"none", "active", "done"}]
      /\ BlockedTask["launch"] # "active" /\ BlockedTask["stop"] = task["stop"]
  BY DEF BlockedTask, Move, PanelTypes
<1>7. \/ op.cancelled /\ op' = NoOp /\ jobs' = jobs \cup {"cancelled"} /\ UNCHANGED <<shown, task>>
      \/ /\ ~op.cancelled /\ op' = NoOp /\ jobs' = jobs \cup {"rolledback"}
         /\ shown' = Blocked /\ task' = BlockedTask
      \/ ~op.cancelled /\ op' = [op EXCEPT !.stage = "launch"] /\ UNCHANGED <<jobs, shown, task>>
  BY DEF DisplayStarted
<1>8. /\ op' \in {NoOp} \cup Operations /\ jobs' \subseteq Jobs
      /\ op' # NoOp => ~op.cancelled /\ op'.stage = "launch" /\ op'.launch /\ op'.cancelled = op.cancelled /\ jobs' = jobs
  BY <1>2, <1>3, <1>4, <1>7 DEF PanelTypes, Jobs, Operations
<1>9. PanelTypes'
  BY <1>1, <1>2, <1>3, <1>4, <1>5, <1>6, <1>7, <1>8 DEF PanelTypes, Left, Leaves
<1>10. Counted'
  BY <1>1, HandlerCounted DEF Left, DisplayStarted
<1>11. LaunchAlone'
  BY <1>2, <1>3, <1>4, <1>7, <1>8 DEF LaunchAlone
<1>12. ListCurrent'
  BY <1>2, <1>3, <1>4, <1>7, <1>8 DEF ListCurrent, Stoppable
<1>13. BusyKept'
  BY <1>1, <1>2, <1>3, <1>4, <1>5, <1>6, <1>7, <1>8 DEF PanelTypes, LaunchAlone, Left, Leaves,
     BusyKept, Telling, Busy
<1>14. LaunchKept'
  BY <1>1, <1>2, <1>3, <1>4, <1>6, <1>7, <1>8 DEF Left, Leaves, LaunchKept
<1>15. StopKept'
  BY <1>1, <1>2, <1>3, <1>4, <1>6, <1>7, <1>8 DEF Left, Leaves, StopKept, Telling
<1>16. AskedIsBacked'
  BY <1>1, <1>2, <1>3, <1>4, <1>5, <1>6, <1>7, <1>8 DEF PanelTypes, LaunchAlone, Left, Leaves,
     AskedIsBacked
<1>17. DisplaysBacked'
  BY <1>1, <1>2 DEF Left, Leaves, DisplaysBacked
<1> QED
  BY <1>9, <1>10, <1>11, <1>12, <1>13, <1>14, <1>15, <1>16, <1>17

\* A display that fails ends its operation.
LEMMA DisplayFailedKept ==
    ASSUME PanelInv, DisplayFailed
    PROVE  PanelInv'
<1> USE DEF PanelInv
<1>1. Left("nothing")
  BY NothingTaken DEF DisplayFailed
<1>2. /\ op # NoOp /\ op.stage = "display" /\ op.launch /\ batch' = "dirty" /\ op' = NoOp
      /\ UNCHANGED <<target, saved, asked, list, program, jobs, slot, row, inbox, clicks, known>>
  BY DEF DisplayFailed, Dirty, LaunchAlone
<1>3. shown' \in Shown /\ shown'.instance \in {"Exited", "None"} /\ ~shown'.force /\ shown' # NoState
  BY Labels DEF DisplayFailed, Show, Blocked, PanelTypes, Instances
<1>4. /\ task' \in [{"launch", "stop"} -> {"none", "active", "done"}]
      /\ task'["launch"] # "active" /\ task'["stop"] \in {task["stop"], "done"}
      /\ op.cancelled => task'["stop"] # "active"
  BY DEF DisplayFailed, BlockedTask, CancelledTask, Move, PanelTypes
<1>5. PanelTypes'
  BY <1>1, <1>2, <1>3, <1>4 DEF PanelTypes, Left
<1>6. Counted'
  BY <1>1, HandlerCounted DEF Left, DisplayFailed
<1>7. LaunchAlone'
  BY <1>2, <1>4 DEF LaunchAlone
<1>8. ListCurrent'
  BY <1>2, <1>4 DEF ListCurrent, Stoppable
<1>9. BusyKept'
  BY <1>1, <1>2, <1>3, <1>4 DEF Left, Leaves, BusyKept, Telling, Busy
<1>10. LaunchKept'
  BY <1>1, <1>2, <1>4 DEF Left, Leaves, LaunchKept
<1>11. StopKept'
  BY <1>1, <1>2, <1>4 DEF Left, Leaves, StopKept, Telling
<1>12. AskedIsBacked'
  BY <1>1, <1>2, <1>3, <1>4 DEF Left, Leaves, AskedIsBacked
<1>13. DisplaysBacked'
  BY <1>1, <1>2 DEF Left, Leaves, DisplaysBacked
<1> QED
  BY <1>5, <1>6, <1>7, <1>8, <1>9, <1>10, <1>11, <1>12, <1>13

\* Progress of a launch is shown as its start.
LEMMA ProgressKept ==
    ASSUME PanelInv, Progress
    PROVE  PanelInv'
<1> USE DEF PanelInv
<1>1. Left("nothing")
  BY NothingTaken DEF Progress
<1>2. /\ op # NoOp /\ op.stage = "launch" /\ op.launch
      /\ UNCHANGED <<target, saved, asked, list, op, program, jobs, slot, row, inbox, batch, clicks, known>>
  BY DEF Progress, LaunchAlone
<1>3. shown' \in {NoState} \cup Shown
  BY ShownStarting DEF Progress, Progressed
<1>4. /\ task' \in [{"launch", "stop"} -> {"none", "active", "done"}] /\ task'["stop"] = task["stop"]
  BY DEF Progress, Move, PanelTypes
<1>5. PanelTypes'
  BY <1>1, <1>2, <1>3, <1>4 DEF PanelTypes, Left
<1>6. Counted'
  BY <1>1, HandlerCounted DEF Left, Progress
<1>7. LaunchAlone'
  BY <1>2 DEF LaunchAlone
<1>8. ListCurrent'
  BY <1>2 DEF ListCurrent, Stoppable
<1>9. BusyKept'
  BY <1>1, <1>2, <1>3 DEF Left, Leaves, BusyKept, Telling, Busy
<1>10. LaunchKept'
  BY <1>1, <1>2, <1>4 DEF Left, Leaves, LaunchKept
<1>11. StopKept'
  BY <1>1, <1>2, <1>4 DEF Left, Leaves, StopKept, Telling
<1>12. AskedIsBacked'
  BY <1>1, <1>2, <1>3 DEF Left, Leaves, AskedIsBacked
<1>13. DisplaysBacked'
  BY <1>1, <1>2 DEF Left, Leaves, DisplaysBacked
<1> QED
  BY <1>5, <1>6, <1>7, <1>8, <1>9, <1>10, <1>11, <1>12, <1>13

\* A launch ends with its program running, or with a cleanup or without.
LEMMA LaunchFinishedKept ==
    ASSUME PanelInv, LaunchFinished
    PROVE  PanelInv'
<1> USE DEF PanelInv
<1>1. Left("nothing")
  BY NothingTaken DEF LaunchFinished
<1>2. /\ op # NoOp /\ op.stage = "launch" /\ op.launch /\ batch' = "dirty" /\ op' = NoOp
      /\ program = "none" /\ jobs \subseteq {"exited", "stopped"}
      /\ UNCHANGED <<target, saved, asked, slot, row, inbox, clicks, known>>
  BY DEF LaunchFinished, Dirty, LaunchAlone
<1>3. \/ op.cancelled /\ jobs' = jobs \cup {"cancelled"} /\ UNCHANGED <<shown, task, program, list>>
      \/ /\ ~op.cancelled /\ program' = "running" /\ list' = [list EXCEPT !.active = TRUE]
         /\ Show("Running") /\ Finish("launch") /\ UNCHANGED jobs
      \/ /\ ~op.cancelled /\ jobs' \in {jobs, jobs \cup {"failed"}}
         /\ Show("Failed") /\ Finish("launch") /\ UNCHANGED <<program, list>>
  BY DEF LaunchFinished
<1>4. /\ ~op.cancelled => shown' \in Shown /\ shown'.instance \in {"Running", "Failed"} /\ ~shown'.force /\ shown' # NoState
      /\ shown' \in {NoState} \cup Shown 
  BY <1>3, Labels DEF Show, PanelTypes, Instances
<1>5. /\ task' \in [{"launch", "stop"} -> {"none", "active", "done"}] /\ task'["stop"] = task["stop"]
      /\ op.cancelled \/ task'["launch"] # "active"
  BY <1>3 DEF Finish, Move, PanelTypes
<1>6. jobs' \subseteq Jobs /\ list' \in [active : BOOLEAN, stoppable : {"no", "active", "pending"}]
  BY <1>3 DEF PanelTypes, Jobs
<1>7. \/ op.cancelled /\ "cancelled" \in jobs' /\ UNCHANGED <<shown, program>>
      \/ ~op.cancelled /\ program' = "running"
      \/ ~op.cancelled /\ shown'.instance = "Failed" /\ jobs \subseteq jobs' /\ UNCHANGED program
  BY <1>3, Labels DEF Show, PanelTypes, Instances
<1>8. PanelTypes'
  BY <1>1, <1>2, <1>3, <1>4, <1>5, <1>6, <1>7 DEF PanelTypes, Left, Leaves
<1>9. Counted'
  BY <1>1, HandlerCounted DEF Left, LaunchFinished
<1>10. LaunchAlone'
  BY <1>2, <1>3, <1>4, <1>5, <1>6, <1>7 DEF LaunchAlone
<1>11. ListCurrent'
  BY <1>2, <1>3, <1>4, <1>5, <1>6, <1>7 DEF ListCurrent, Stoppable
<1>12. BusyKept'
  BY <1>1, <1>2, <1>3, <1>4, <1>5, <1>6, <1>7 DEF Left, Leaves, BusyKept, Telling, Busy
<1>13. LaunchKept'
  BY <1>1, <1>2, <1>3, <1>4, <1>5, <1>6, <1>7 DEF Left, Leaves, LaunchKept
<1>14. StopKept'
  BY <1>1, <1>2, <1>3, <1>4, <1>5, <1>6, <1>7 DEF Left, Leaves, StopKept, Telling
<1>15. AskedIsBacked'
  BY <1>1, <1>2, <1>3, <1>4, <1>5, <1>6, <1>7 DEF Left, Leaves, AskedIsBacked
<1>16. DisplaysBacked'
  BY <1>1, <1>2 DEF Left, Leaves, DisplaysBacked
<1> QED
  BY <1>8, <1>9, <1>10, <1>11, <1>12, <1>13, <1>14, <1>15, <1>16

-----------------------------------------------------------------------------
(* StartContainerSession, of the user and of a check that is done.         *)

TaskStates == [{"launch", "stop"} -> {"none", "active", "done"}]

\* What one reap finds: nothing new, a program that has ended, or a stop that takes too long.
LEMMA ReapsFacts ==
    ASSUME PanelInv, NEW r \in Reaps
    PROVE  \/ r.program = program /\ r.jobs = jobs /\ r.shown = shown
           \/ /\ program # "none" /\ r.program = "none" /\ r.shown = shown
              /\ r.jobs \in {jobs \cup {"exited"}, jobs \cup {"stopped"}}
           \/ /\ program = "stopping" /\ r.program = "offered" /\ r.jobs = jobs
              /\ r.shown \in {NoState} \cup Shown /\ (r.shown = NoState <=> shown = NoState)
<1>1. CASE r = [program |-> program, jobs |-> jobs, shown |-> shown]
  BY <1>1
<1>2. CASE program # "none" /\ r = [program |-> "none", shown |-> shown,
                   jobs |-> jobs \cup {IF program = "running" THEN "exited" ELSE "stopped"}]
  BY <1>2
<1>3. CASE program = "stopping" /\ r = [program |-> "offered", jobs |-> jobs,
                   shown |-> IF shown = NoState THEN NoState ELSE [shown EXCEPT !.force = TRUE]]
  <2>1. r.program = "offered" /\ r.jobs = jobs
    BY <1>3
  <2>2. r.shown = IF shown = NoState THEN NoState ELSE [shown EXCEPT !.force = TRUE]
    BY <1>3
  <2>3. shown # NoState => [shown EXCEPT !.force = TRUE] \in Shown
    BY DEF PanelInv, PanelTypes, Shown
  <2> QED
    BY <1>3, <2>1, <2>2, <2>3, PanelSessionsAssumption
<1> QED
  BY <1>1, <1>2, <1>3 DEF Reaps

\* An operation that is written is an operation still.
LEMMA StageWritten ==
    ASSUME NEW o \in Operations, NEW stage \in Stages
    PROVE  /\ [o EXCEPT !.stage = stage] \in Operations /\ [o EXCEPT !.stage = stage] # NoOp
           /\ [o EXCEPT !.stage = stage].stage = stage
           /\ [o EXCEPT !.stage = stage].launch = o.launch
           /\ [o EXCEPT !.stage = stage].cancelled = o.cancelled
<1>1. [o EXCEPT !.stage = stage] \in Operations
  BY DEF Operations
<1>2. /\ [o EXCEPT !.stage = stage].stage = stage
      /\ [o EXCEPT !.stage = stage].launch = o.launch
      /\ [o EXCEPT !.stage = stage].cancelled = o.cancelled
  BY DEF Operations
<1> QED
  BY <1>1, <1>2, PanelSessionsAssumption

LEMMA LaunchWritten ==
    ASSUME NEW o \in Operations, NEW flag \in BOOLEAN
    PROVE  /\ [o EXCEPT !.launch = flag] \in Operations /\ [o EXCEPT !.launch = flag] # NoOp
           /\ [o EXCEPT !.launch = flag].stage = o.stage
           /\ [o EXCEPT !.launch = flag].launch = flag
           /\ [o EXCEPT !.launch = flag].cancelled = o.cancelled
<1>1. [o EXCEPT !.launch = flag] \in Operations
  BY DEF Operations
<1>2. /\ [o EXCEPT !.launch = flag].stage = o.stage
      /\ [o EXCEPT !.launch = flag].launch = flag
      /\ [o EXCEPT !.launch = flag].cancelled = o.cancelled
  BY DEF Operations
<1> QED
  BY <1>1, <1>2, PanelSessionsAssumption

LEMMA ResumeWritten ==
    ASSUME NEW o \in Operations, NEW flag \in BOOLEAN
    PROVE  /\ [o EXCEPT !.resume = flag] \in Operations /\ [o EXCEPT !.resume = flag] # NoOp
           /\ [o EXCEPT !.resume = flag].stage = o.stage
           /\ [o EXCEPT !.resume = flag].launch = o.launch
           /\ [o EXCEPT !.resume = flag].cancelled = o.cancelled
<1>1. [o EXCEPT !.resume = flag] \in Operations
  BY DEF Operations
<1>2. /\ [o EXCEPT !.resume = flag].stage = o.stage
      /\ [o EXCEPT !.resume = flag].launch = o.launch
      /\ [o EXCEPT !.resume = flag].cancelled = o.cancelled
  BY DEF Operations
<1> QED
  BY <1>1, <1>2, PanelSessionsAssumption

LEMMA CancelWritten ==
    ASSUME NEW o \in Operations, NEW flag \in BOOLEAN
    PROVE  /\ [o EXCEPT !.cancelled = flag] \in Operations /\ [o EXCEPT !.cancelled = flag] # NoOp
           /\ [o EXCEPT !.cancelled = flag].stage = o.stage
           /\ [o EXCEPT !.cancelled = flag].launch = o.launch
           /\ [o EXCEPT !.cancelled = flag].cancelled = flag
<1>1. [o EXCEPT !.cancelled = flag] \in Operations
  BY DEF Operations
<1>2. /\ [o EXCEPT !.cancelled = flag].stage = o.stage
      /\ [o EXCEPT !.cancelled = flag].launch = o.launch
      /\ [o EXCEPT !.cancelled = flag].cancelled = flag
  BY DEF Operations
<1> QED
  BY <1>1, <1>2, PanelSessionsAssumption

\* What StartContainerSession leaves of an operation and of what is shown.
Started(o) ==
    /\ op' \in {NoOp} \cup Operations /\ shown' \in {NoState} \cup Shown /\ task' \in TaskStates
    /\ task'["stop"] = task["stop"]
    /\ task'["launch"] = "active" => op' # NoOp /\ op'.launch
    /\ op' # NoOp /\ op'.stage # "check" => op'.launch
    /\ o # NoOp /\ o.cancelled => op' = o
    /\ op' # NoOp \/ (shown' # NoState /\ shown'.instance = "None" /\ ~shown'.force)

LEMMA StartOntoKept ==
    ASSUME PanelInv, NEW o \in {NoOp} \cup Operations, NEW tasks, NEW state \in {NoState} \cup Shown,
           tasks = [task EXCEPT !["launch"] = "active"],
           o # NoOp /\ o.stage # "check" => o.launch,
           StartOnto(o, tasks, state)
    PROVE  Started(o)
<1> DEFINE starting == IF state = NoState THEN NoState ELSE [instance |-> "Starting", force |-> FALSE]
           Refused == shown' = Labelled(state, "None") /\ task' = [tasks EXCEPT !["launch"] = "done"]
           Goes == shown' = starting /\ task' = tasks
<1>1. \/ op' = NoOp /\ Refused
      \/ o = NoOp /\ op' = Operation(TRUE) /\ shown' = state /\ task' = tasks
      \/ o # NoOp /\ op' = o /\ Refused
      \/ o # NoOp /\ ~o.cancelled /\ o.stage = "check" /\ op' = [o EXCEPT !.launch = TRUE] /\ Goes
      \/ o # NoOp /\ ~o.cancelled /\ o.stage # "check" /\ op' = o /\ shown' = state /\ task' = tasks
      \/ /\ o # NoOp /\ ~o.cancelled /\ o.stage = "checked" /\ Goes
         /\ \E stage \in {"display", "launch"} : op' = [o EXCEPT !.stage = stage]
  BY DEF StartOnto
<1>2. o # NoOp /\ o.cancelled => op' = o
  BY DEF StartOnto
<1>3. starting \in {NoState} \cup Shown
  BY ShownStarting
<1>4. Refused => /\ shown' \in Shown /\ shown' # NoState /\ shown'.instance = "None" /\ ~shown'.force
                 /\ task' \in TaskStates /\ task'["stop"] = task["stop"] /\ task'["launch"] = "done"
  BY Labels DEF Instances, TaskStates, PanelInv, PanelTypes
<1>5. /\ tasks \in TaskStates /\ tasks["stop"] = task["stop"]
  BY DEF TaskStates, PanelInv, PanelTypes
<1>6. Goes => shown' \in {NoState} \cup Shown /\ task' \in TaskStates /\ task'["stop"] = task["stop"]
  BY <1>3, <1>5
<1> HIDE DEF starting, Refused, Goes
<1>7. CASE op' = NoOp /\ Refused
  BY <1>2, <1>4, <1>7 DEF Started
<1>8. CASE o = NoOp /\ op' = Operation(TRUE) /\ shown' = state /\ task' = tasks
  BY <1>2, <1>5, <1>8, OperationFields DEF Started
<1>9. CASE o # NoOp /\ op' = o /\ Refused
  BY <1>4, <1>9 DEF Started
<1>10. CASE o # NoOp /\ ~o.cancelled /\ o.stage = "check" /\ op' = [o EXCEPT !.launch = TRUE] /\ Goes
  BY <1>6, <1>10, LaunchWritten DEF Started
<1>11. CASE o # NoOp /\ ~o.cancelled /\ o.stage # "check" /\ op' = o /\ shown' = state /\ task' = tasks
  BY <1>5, <1>11 DEF Started
<1>12. ASSUME o # NoOp, ~o.cancelled, o.stage = "checked", Goes,
              NEW stage \in {"display", "launch"}, op' = [o EXCEPT !.stage = stage]
       PROVE  Started(o)
  <2>1. o \in Operations /\ stage \in Stages /\ TRUE \in BOOLEAN /\ o.launch
    BY <1>12 DEF Stages
  <2>2. [o EXCEPT !.stage = stage] \in Operations /\ [o EXCEPT !.stage = stage] # NoOp
        /\ [o EXCEPT !.stage = stage].launch = o.launch
    BY <2>1, StageWritten
  <2> QED
    BY <1>6, <1>12, <2>1, <2>2 DEF Started
<1> QED
  BY <1>1, <1>7, <1>8, <1>9, <1>10, <1>11, <1>12

\* The three ends of StartContainerSession with a profile: a cleanup refuses it, it finds the
\* program running, or it goes on with the operation.
LEMMA StartForFacts ==
    ASSUME PanelInv, NEW o \in {NoOp} \cup Operations, StartFor(o), saved, o = NoOp <=> op = NoOp,
           op # NoOp => o.stage = op.stage /\ o.launch = op.launch /\ o.cancelled = op.cancelled
    PROVE  /\ op' \in {NoOp} \cup Operations /\ shown' \in {NoState} \cup Shown /\ task' \in TaskStates
           /\ list' \in [active : BOOLEAN, stoppable : {"no", "active", "pending"}]
           /\ program' \in {"none", "running", "stopping", "offered"} /\ jobs' \subseteq Jobs
           /\ LaunchAlone'
           /\ task'["stop"] = task["stop"]
           /\ task'["launch"] = "active" => op' # NoOp /\ op'.launch
           /\ op # NoOp /\ op.cancelled => op' # NoOp /\ op'.cancelled
           /\ \/ op' # NoOp \/ program' # "none"
              \/ shown' # NoState /\ shown'.instance = "None" /\ ~shown'.force
           /\ op' # NoOp \/ shown' # NoState
           /\ Telling # {} => jobs' = jobs
           /\ program \in {"stopping", "offered"} => program' \in {"stopping", "offered"} \/ Telling' # {}
<1> DEFINE tasks == [task EXCEPT !["launch"] = "active"]
           refusedTasks == [tasks EXCEPT !["launch"] = "done"]
<1> USE DEF PanelInv
<1>1. /\ refusedTasks \in TaskStates /\ refusedTasks["stop"] = task["stop"] /\ refusedTasks["launch"] = "done"
  BY DEF TaskStates, PanelTypes
<1>2. o # NoOp /\ o.stage # "check" => o.launch
  BY DEF LaunchAlone
<1>3. o # NoOp /\ o.launch => program = "none" /\ jobs \subseteq {"exited", "stopped"}
  BY DEF LaunchAlone
<1>4. CASE jobs # {}
  <2>1. /\ op' = o /\ shown' = Blocked /\ task' = refusedTasks /\ UNCHANGED <<program, jobs, list>>
    BY <1>4 DEF StartFor
  <2>2. Blocked \in Shown /\ Blocked.instance = "None" /\ ~Blocked.force /\ Blocked # NoState
    BY Labels DEF Blocked, PanelTypes, Instances
  <2> HIDE DEF refusedTasks
  <2> QED
    BY <1>1, <1>2, <1>3, <2>1, <2>2 DEF PanelTypes, LaunchAlone, Telling
<1>5. CASE jobs = {}
  <2>1. PICK r \in Reaps : StartFound(o, tasks, r)
    BY <1>5 DEF StartFor
  <2>2. /\ program' = r.program /\ jobs' = r.jobs /\ list' = [list EXCEPT !.active = r.program # "none"]
    BY <2>1 DEF StartFound
  <2>3. \/ r.program = program /\ r.jobs = jobs /\ r.shown = shown
        \/ /\ program # "none" /\ r.program = "none" /\ r.shown = shown
           /\ r.jobs \in {jobs \cup {"exited"}, jobs \cup {"stopped"}}
        \/ /\ program = "stopping" /\ r.program = "offered" /\ r.jobs = jobs
           /\ r.shown \in {NoState} \cup Shown
    BY ReapsFacts
  <2>4. /\ list' \in [active : BOOLEAN, stoppable : {"no", "active", "pending"}]
        /\ program' \in {"none", "running", "stopping", "offered"} /\ jobs' \subseteq {"exited", "stopped"}
    BY <1>5, <2>2, <2>3 DEF PanelTypes
  <2>5. program \in {"stopping", "offered"} => program' \in {"stopping", "offered"} \/ Telling' # {}
    BY <2>2, <2>3 DEF Telling
  <2>6. Telling = {} /\ jobs' \subseteq Jobs
    BY <1>5, <2>4 DEF Telling, Jobs
  <2>7. r.shown \in {NoState} \cup Shown
    BY <2>3 DEF PanelTypes
  <2>8. CASE r.program = "none"
    <3>1. StartOnto(o, tasks, r.shown)
      BY <2>1, <2>8 DEF StartFound
    <3> HIDE DEF tasks
    <3>2. tasks = [task EXCEPT !["launch"] = "active"]
      BY DEF tasks
    <3>3. Started(o)
      BY <1>2, <2>7, <3>1, <3>2, StartOntoKept
    <3>4. LaunchAlone'
      BY <2>2, <2>4, <2>8, <3>3 DEF Started, LaunchAlone
    <3> QED
      BY <2>4, <2>5, <2>6, <3>3, <3>4 DEF Started
  <2>9. CASE r.program # "none"
    <3>1. op' = (IF o # NoOp /\ o.stage # "check" THEN NoOp ELSE o) /\ shown' = Labelled(r.shown, "Running")
          /\ task' = refusedTasks
      BY <2>1, <2>9 DEF StartFound
    <3>2. program # "none"
      BY <2>3, <2>9
    <3>3. op' = o /\ (o # NoOp => ~o.launch /\ o.stage = "check")
      BY <1>2, <1>3, <3>1, <3>2
    <3>4. shown' \in Shown /\ shown' # NoState
      BY <2>7, <3>1, Labels DEF Instances
    <3>5. LaunchAlone'
      BY <3>3 DEF LaunchAlone
    <3> HIDE DEF refusedTasks
    <3> QED
      BY <1>1, <2>2, <2>4, <2>5, <2>6, <2>9, <3>1, <3>3, <3>4, <3>5
  <2> QED
    BY <2>8, <2>9
<1> QED
  BY <1>4, <1>5


\* A start is refused and says so, or goes on in its operation.
LEMMA StartForKept ==
    ASSUME PanelInv, NEW o \in {NoOp} \cup Operations, StartFor(o), o = NoOp <=> op = NoOp,
           op # NoOp => o.stage = op.stage /\ o.launch = op.launch /\ o.cancelled = op.cancelled,
           NEW m \in {"nothing", "start"}, Left(m), m = "nothing" => op # NoOp /\ ~op.cancelled
    PROVE  PanelInv'
<1> USE DEF PanelInv
<1>1. /\ batch' = "dirty" /\ batch # "none"
      /\ UNCHANGED <<target, saved, asked, slot, row, clicks, known>>
  BY DEF StartFor, Dirty
<1>2. ~saved => op' = o /\ UNCHANGED <<shown, task, program, jobs, list>>
  BY DEF StartFor
<1>3. saved =>
        /\ op' \in {NoOp} \cup Operations /\ shown' \in {NoState} \cup Shown /\ task' \in TaskStates
        /\ list' \in [active : BOOLEAN, stoppable : {"no", "active", "pending"}]
        /\ program' \in {"none", "running", "stopping", "offered"} /\ jobs' \subseteq Jobs
        /\ LaunchAlone'
        /\ task'["stop"] = task["stop"]
        /\ task'["launch"] = "active" => op' # NoOp /\ op'.launch
        /\ op # NoOp /\ op.cancelled => op' # NoOp /\ op'.cancelled
        /\ \/ op' # NoOp \/ program' # "none"
           \/ shown' # NoState /\ shown'.instance = "None" /\ ~shown'.force
        /\ op' # NoOp \/ shown' # NoState
        /\ Telling # {} => jobs' = jobs
        /\ program \in {"stopping", "offered"} => program' \in {"stopping", "offered"} \/ Telling' # {}
  BY StartForFacts
<1>4. PanelTypes'
  BY <1>1, <1>2, <1>3 DEF PanelTypes, Left, Leaves, TaskStates
<1>5. Counted'
  BY <1>1, HandlerCounted DEF Left
<1>6. LaunchAlone'
  BY <1>2, <1>3 DEF LaunchAlone, TaskStates
<1>7. ListCurrent'
  BY <1>1, <1>2, <1>3 DEF TaskStates, ListCurrent, Stoppable
<1>8. BusyKept'
  BY <1>1, <1>2, <1>3 DEF Left, Leaves, TaskStates, BusyKept, Telling, Busy
<1>9. LaunchKept'
  BY <1>1, <1>2, <1>3 DEF Left, Leaves, TaskStates, LaunchKept
<1>10. StopKept'
  BY <1>2, <1>3 DEF Left, Leaves, TaskStates, StopKept, Telling
<1>11. AskedIsBacked'
  BY <1>1, <1>2, <1>3 DEF Left, Leaves, TaskStates, AskedIsBacked
<1>12. DisplaysBacked'
  BY <1>1, <1>3 DEF Left, Leaves, TaskStates, DisplaysBacked
<1> QED
  BY <1>4, <1>5, <1>6, <1>7, <1>8, <1>9, <1>10, <1>11, <1>12

LEMMA StartKept == PanelInv /\ Start => PanelInv'
<1> SUFFICES ASSUME PanelInv, Start PROVE PanelInv'
  OBVIOUS
<1>1. Receive("start") /\ StartFor(op) /\ op \in {NoOp} \cup Operations
  BY DEF Start, PanelInv, PanelTypes
<1>2. Left("start")
  BY <1>1, MessageTaken
<1> QED
  BY <1>1, <1>2, StartForKept


\* The resumption of a cancelled launch is dropped.
LEMMA ResumeCancelledKept ==
    ASSUME PanelInv, batch # "none", op # NoOp, op' \in Operations, op' # NoOp, op'.stage = op.stage,
           op'.launch = op.launch, op'.cancelled = op.cancelled, Left("nothing"),
           UNCHANGED <<target, saved, shown, task, asked, list, program, jobs, slot, row, batch,
                       clicks, known>>
    PROVE  PanelInv'
<1> USE DEF PanelInv
<1>1. PanelTypes'
  BY  DEF PanelTypes, Left, Leaves
<1>2. Counted'
  BY HandlerCounted DEF Left
<1>3. LaunchAlone'
  BY  DEF LaunchAlone
<1>4. ListCurrent'
  BY  DEF ListCurrent, Stoppable
<1>5. BusyKept'
  BY  DEF Left, Leaves, BusyKept, Telling, Busy
<1>6. LaunchKept'
  BY  DEF Left, Leaves, LaunchKept
<1>7. StopKept'
  BY  DEF Left, Leaves, StopKept, Telling
<1>8. AskedIsBacked'
  BY  DEF Left, Leaves, AskedIsBacked
<1>9. DisplaysBacked'
  BY  DEF Left, Leaves, DisplaysBacked
<1> QED
  BY <1>1, <1>2, <1>3, <1>4, <1>5, <1>6, <1>7, <1>8, <1>9

LEMMA ResumeKept == PanelInv /\ ResumeContainerSession => PanelInv'
<1> SUFFICES ASSUME PanelInv, ResumeContainerSession PROVE PanelInv'
  OBVIOUS
<1>1. op # NoOp /\ op \in Operations /\ inbox' = inbox /\ FALSE \in BOOLEAN
  BY DEF ResumeContainerSession, PanelInv, PanelTypes
<1>2. PICK o : o = [op EXCEPT !.resume = FALSE]
  OBVIOUS
<1>3. /\ o \in Operations /\ o # NoOp /\ o.stage = op.stage /\ o.launch = op.launch
      /\ o.cancelled = op.cancelled
  BY <1>1, <1>2, ResumeWritten
<1>4. Left("nothing")
  BY <1>1, NothingTaken
<1>5. CASE op.cancelled
  BY <1>2, <1>3, <1>4, <1>5, ResumeCancelledKept DEF ResumeContainerSession
<1>6. CASE ~op.cancelled
  BY <1>1, <1>2, <1>3, <1>4, <1>6, StartForKept DEF ResumeContainerSession
<1> QED
  BY <1>5, <1>6


-----------------------------------------------------------------------------
(* Stops, terminals, and cleanups.                                         *)


\* A stop cancels the operation, waits for its program, or says that it failed.
LEMMA StopAskedKept ==
    ASSUME PanelInv, Stop
    PROVE  PanelInv'
<1> USE DEF PanelInv
<1>1. Left("stop")
  BY MessageTaken DEF Stop
<1>2. /\ batch' = "dirty" /\ UNCHANGED <<target, saved, asked, list, jobs, slot, row, clicks>>
  BY DEF Stop, Dirty
<1>3. /\ known' \subseteq {"stale", "blocked"} /\ known \subseteq known'
      /\ "stale" \in known' => "stale" \in known
      /\ op # NoOp /\ program = "none" /\ op.stage = "checked" /\ jobs # {} => "blocked" \in known'
  BY DEF Stop, WorkerPending, PanelTypes
<1>4. /\ program' \in {"none", "running", "stopping", "offered"} /\ (program' = "none" <=> program = "none")
      /\ program # "none" => program' \in {"stopping", "offered"}
  BY DEF Stop, PanelTypes
<1>5. op # NoOp => /\ op \in Operations /\ [op EXCEPT !.cancelled = TRUE] \in Operations
                          /\ [op EXCEPT !.cancelled = TRUE] # NoOp
                          /\ [op EXCEPT !.cancelled = TRUE].stage = op.stage
                          /\ [op EXCEPT !.cancelled = TRUE].launch = op.launch
                          /\ [op EXCEPT !.cancelled = TRUE].cancelled
  BY CancelWritten DEF PanelTypes
<1>6. op' = IF op # NoOp /\ op.stage # "checked" THEN [op EXCEPT !.cancelled = TRUE] ELSE NoOp
  BY DEF Stop, WorkerPending
<1>7. /\ op' \in {NoOp} \cup Operations /\ (op' # NoOp <=> op # NoOp /\ op.stage # "checked")
      /\ op' # NoOp => op'.stage = op.stage /\ op'.launch = op.launch /\ op'.cancelled
  BY <1>5, <1>6
<1>8. \/ /\ op # NoOp /\ program = "none" /\ (op.stage # "checked" \/ jobs # {})
         /\ Show("Stopping") /\ task' = [[task EXCEPT !["stop"] = "active"] EXCEPT !["launch"] = Move(@, "active")]
      \/ /\ op # NoOp /\ program = "none" /\ op.stage = "checked" /\ jobs = {}
         /\ Show("Exited")
         /\ task' = [[task EXCEPT !["stop"] = "active"] EXCEPT !["launch"] = Move(@, "done"), !["stop"] = "done"]
      \/ program # "none" /\ task' = [task EXCEPT !["stop"] = "active"] /\ UNCHANGED shown
      \/ /\ program = "running" \/ (program = "none" /\ op = NoOp)
         /\ Show("Failed") /\ task' = [[task EXCEPT !["stop"] = "active"] EXCEPT !["stop"] = "done"]
  BY DEF Stop, WorkerPending
<1>9. /\ shown' \in {NoState} \cup Shown
      /\ program # "none" \/ shown' # NoState
      /\ program # "none" \/ op' # NoOp \/ jobs # {} \/ (shown'.instance \in {"Exited", "Failed"} /\ ~shown'.force)
      /\ \/ shown' = shown /\ program # "none"
         \/ shown' # NoState
  BY <1>7, <1>8, Labels DEF Show, PanelTypes, Instances
<1>10. /\ task' \in [{"launch", "stop"} -> {"none", "active", "done"}]
       /\ task'["stop"] = "active" => program # "none" \/ (op # NoOp /\ (op.stage # "checked" \/ jobs # {}))
       /\ task'["launch"] = "active" =>
          \/ task["launch"] = "active" /\ (program # "none" \/ op = NoOp)
          \/ op # NoOp /\ (op.stage # "checked" \/ jobs # {}) /\ program = "none"
  BY <1>8 DEF Move, PanelTypes
<1>11. PanelTypes'
  BY <1>1, <1>2, <1>3, <1>4, <1>5, <1>6, <1>7, <1>8, <1>9, <1>10 DEF PanelTypes, Left
<1>12. Counted'
  BY <1>1, HandlerCounted DEF Left, Stop
<1>13. LaunchAlone'
  BY <1>2, <1>3, <1>4, <1>5, <1>6, <1>7, <1>8, <1>9, <1>10 DEF LaunchAlone
<1>14. ListCurrent'
  BY <1>2, <1>3, <1>4, <1>5, <1>6, <1>7, <1>8, <1>9, <1>10 DEF ListCurrent, Stoppable
<1>15. BusyKept'
  BY <1>1, <1>2, <1>3, <1>4, <1>5, <1>6, <1>7, <1>8, <1>9, <1>10 DEF PanelTypes, LaunchAlone, Left,
     Leaves, BusyKept, Telling, Busy
<1>16. LaunchKept'
  BY <1>1, <1>2, <1>3, <1>4, <1>5, <1>6, <1>7, <1>8, <1>9, <1>10 DEF PanelTypes, LaunchAlone, Left,
     Leaves, LaunchKept
<1>17. StopKept'
  BY <1>1, <1>2, <1>3, <1>4, <1>5, <1>6, <1>7, <1>8, <1>9, <1>10 DEF PanelTypes, LaunchAlone, Left,
     Leaves, StopKept, Telling
<1>18. AskedIsBacked'
  BY <1>1, <1>2, <1>3, <1>4, <1>5, <1>6, <1>7, <1>8, <1>9, <1>10 DEF PanelTypes, LaunchAlone, Left,
     Leaves, AskedIsBacked
<1>19. DisplaysBacked'
  BY <1>1, <1>2 DEF Left, Leaves, DisplaysBacked
<1> QED
  BY <1>11, <1>12, <1>13, <1>14, <1>15, <1>16, <1>17, <1>18, <1>19

\* A forced stop over a pending operation goes back into the queue as a stop.
LEMMA MessageAnswered ==
    ASSUME inbox \in Seq(PanelMessages), inbox # <<>>, Head(inbox) = "force",
           inbox' = Append(Tail(inbox), "stop")
    PROVE  /\ inbox' \in Seq(PanelMessages) /\ Len(inbox') = Len(inbox) /\ Len(inbox) \in Nat
           /\ Under({"start", "check", "stop", "force"})' /\ Under({"stop", "force"})'
           /\ Under({"start"}) => Under({"start"})'
           /\ Under({"check"}) => Under({"check"})'
           /\ Under({"close"}) => Under({"close"})'
<1>0. Tail(inbox) \in Seq(PanelMessages)
  OBVIOUS
<1>1. PICK t \in Seq(PanelMessages) : t = Tail(inbox)
  BY <1>0
<1>2. /\ Len(inbox) \in Nat /\ Len(t) = Len(inbox) - 1 /\ inbox[1] = "force"
      /\ \A i \in 1 .. Len(inbox) : i # 1 => i - 1 \in 1 .. Len(t) /\ t[i - 1] = inbox[i]
  BY <1>1
<1>3. /\ inbox' \in Seq(PanelMessages) /\ Len(inbox') = Len(t) + 1 /\ inbox'[Len(inbox')] = "stop"
      /\ Len(inbox') \in 1 .. Len(inbox')
      /\ \A i \in 1 .. Len(t) : i \in 1 .. Len(inbox') /\ inbox'[i] = t[i]
  BY <1>1 DEF PanelMessages
<1>4. ASSUME NEW S, \E i \in 1 .. Len(inbox) : inbox[i] \in S, "force" \notin S
      PROVE  \E i \in 1 .. Len(inbox') : inbox'[i] \in S
  <2>1. PICK i \in 1 .. Len(inbox) : inbox[i] \in S
    BY <1>4
  <2>2. i - 1 \in 1 .. Len(t) /\ t[i - 1] = inbox[i]
    BY <1>2, <1>4, <2>1
  <2> QED
    BY <1>3, <2>1, <2>2
<1>5. Len(inbox') = Len(inbox)
  BY <1>2, <1>3
<1> QED
  BY <1>2, <1>3, <1>4, <1>5 DEF Under


\* A forced stop over a pending operation changes nothing yet.
LEMMA ForceAgainKept ==
    ASSUME PanelInv, ForceStop, op # NoOp
    PROVE  PanelInv'
<1> USE DEF PanelInv
<1>1. /\ inbox' = Append(Tail(inbox), "stop") /\ batch' = "dirty" /\ inbox # <<>> /\ Head(inbox) = "force"
      /\ UNCHANGED <<target, saved, shown, task, asked, list, op, program, jobs, slot, row, clicks, known>>
  BY DEF ForceStop, Dirty
<1>2. /\ inbox' \in Seq(PanelMessages) /\ Len(inbox') = Len(inbox) /\ Len(inbox) \in Nat
      /\ Under({"start", "check", "stop", "force"})' /\ Under({"stop", "force"})'
      /\ Under({"start"}) => Under({"start"})'
      /\ Under({"check"}) => Under({"check"})'
      /\ Under({"close"}) => Under({"close"})'
  BY <1>1, MessageAnswered DEF PanelTypes
<1>3. PanelTypes'
  BY <1>1, <1>2 DEF PanelTypes, Counted
<1>4. Counted'
  BY <1>1, <1>2, HandlerCounted
<1>5. LaunchAlone'
  BY <1>1 DEF LaunchAlone, Counted
<1>6. ListCurrent'
  BY <1>1 DEF Counted, ListCurrent, Stoppable
<1>7. BusyKept'
  BY <1>1, <1>2 DEF Counted, BusyKept, Telling, Busy
<1>8. LaunchKept'
  BY <1>1, <1>2 DEF Counted, LaunchKept
<1>9. StopKept'
  BY <1>1, <1>2 DEF Counted, StopKept, Telling
<1>10. AskedIsBacked'
  BY <1>1, <1>2 DEF Counted, AskedIsBacked
<1>11. DisplaysBacked'
  BY <1>1, <1>2 DEF Counted, DisplaysBacked
<1> QED
  BY <1>3, <1>4, <1>5, <1>6, <1>7, <1>8, <1>9, <1>10, <1>11

\* A forced stop takes the program away, or says that it failed.
LEMMA ForceStopKept ==
    ASSUME PanelInv, ForceStop, op = NoOp
    PROVE  PanelInv'
<1> USE DEF PanelInv
<1>1. Receive("force") /\ batch' = "dirty" /\ UNCHANGED <<target, saved, asked, op, slot, row, clicks, known>>
  BY DEF ForceStop, Dirty, Receive
<1>2. Left("force")
  BY <1>1, MessageTaken
<1>3. \/ program = "none" /\ Show("Failed") /\ Finish("stop") /\ UNCHANGED <<list, program, jobs>>
      \/ /\ program # "none" /\ program' = "none" /\ jobs' = jobs \cup {"stopped"}
         /\ list' = [list EXCEPT !.active = FALSE]
         /\ task' = [task EXCEPT !["stop"] = Move(@, "active")] /\ UNCHANGED shown
  BY DEF ForceStop
<1>4. /\ list' \in [active : BOOLEAN, stoppable : {"no", "active", "pending"}]
      /\ jobs \subseteq jobs' /\ jobs' \subseteq Jobs /\ program' = "none"
  BY <1>3 DEF PanelTypes, Jobs
<1>5. /\ task' \in [{"launch", "stop"} -> {"none", "active", "done"}] /\ task'["launch"] = task["launch"]
      /\ task'["stop"] = "active" => "stopped" \in jobs'
  BY <1>3 DEF Finish, Move, PanelTypes
<1>6. /\ shown' \in {NoState} \cup Shown /\ (shown' = NoState => shown = NoState)
      /\ "stopped" \in jobs' \/ (shown' # NoState /\ shown'.instance = "Failed" /\ ~shown'.force)
  BY <1>3, Labels DEF Show, PanelTypes, Instances
<1>7. PanelTypes'
  BY <1>1, <1>2, <1>3, <1>4, <1>5, <1>6 DEF PanelTypes, Left, Leaves
<1>8. Counted'
  BY <1>1, <1>2, HandlerCounted DEF Left
<1>9. LaunchAlone'
  BY <1>1, <1>3, <1>4, <1>5, <1>6 DEF LaunchAlone
<1>10. ListCurrent'
  BY <1>1, <1>3, <1>4 DEF ListCurrent, Stoppable
<1>11. BusyKept'
  BY <1>1, <1>2, <1>3, <1>4, <1>5, <1>6 DEF Left, Leaves, BusyKept, Telling, Busy
<1>12. LaunchKept'
  BY <1>1, <1>2, <1>3, <1>4, <1>5, <1>6 DEF Left, Leaves, LaunchKept
<1>13. StopKept'
  BY <1>1, <1>2, <1>3, <1>4, <1>5, <1>6 DEF Left, Leaves, StopKept, Telling
<1>14. AskedIsBacked'
  BY <1>1, <1>2, <1>3, <1>4, <1>5, <1>6 DEF Left, Leaves, AskedIsBacked
<1>15. DisplaysBacked'
  BY <1>1, <1>2 DEF Left, Leaves, DisplaysBacked
<1> QED
  BY <1>7, <1>8, <1>9, <1>10, <1>11, <1>12, <1>13, <1>14, <1>15

\* Opening a terminal may fail, and says so.
LEMMA TerminalKept ==
    ASSUME PanelInv, OpenTerminal
    PROVE  PanelInv'
<1> USE DEF PanelInv
<1>1. Left("terminal")
  BY MessageTaken DEF OpenTerminal
<1>2. /\ batch # "none"
      /\ UNCHANGED <<target, saved, task, asked, list, op, program, jobs, slot, row, batch, clicks, known>>
  BY DEF OpenTerminal
<1>3. /\ shown' \in {NoState} \cup Shown
      /\ shown' = shown \/ (shown' # NoState /\ shown'.instance = "Failed" /\ ~shown'.force)
  BY Labels DEF OpenTerminal, Show, PanelTypes, Instances
<1>4. PanelTypes'
  BY <1>1, <1>2, <1>3 DEF PanelTypes, Left, Leaves
<1>5. Counted'
  BY <1>1, HandlerCounted DEF Left, OpenTerminal
<1>6. LaunchAlone'
  BY <1>2 DEF LaunchAlone
<1>7. ListCurrent'
  BY <1>2 DEF ListCurrent, Stoppable
<1>8. BusyKept'
  BY <1>1, <1>2, <1>3 DEF Left, Leaves, BusyKept, Telling, Busy
<1>9. LaunchKept'
  BY <1>1, <1>2 DEF Left, Leaves, LaunchKept
<1>10. StopKept'
  BY <1>1, <1>2 DEF Left, Leaves, StopKept, Telling
<1>11. AskedIsBacked'
  BY <1>1, <1>2, <1>3 DEF Left, Leaves, AskedIsBacked
<1>12. DisplaysBacked'
  BY <1>1, <1>2 DEF Left, Leaves, DisplaysBacked
<1> QED
  BY <1>4, <1>5, <1>6, <1>7, <1>8, <1>9, <1>10, <1>11, <1>12

\* A cleanup that is done says so, when its end is shown.
LEMMA JobDoneKept ==
    ASSUME PanelInv, NEW job \in jobs, JobDone(job)
    PROVE  PanelInv'
<1> USE DEF PanelInv
<1>1. Left("nothing")
  BY NothingTaken DEF JobDone
<1>2. /\ jobs' = jobs \ {job}
      /\ UNCHANGED <<target, saved, asked, list, op, program, slot, row, inbox, batch, clicks, known>>
  BY DEF JobDone
<1>3. \/ job \in {"exited", "stopped"} /\ Show("Exited") /\ Finish("stop")
      \/ job = "cancelled" /\ Show("Exited") /\ task' = CancelledTask
      \/ job \in {"rolledback", "failed"} /\ UNCHANGED <<shown, task>>
  BY DEF JobDone
<1>4. /\ task' \in [{"launch", "stop"} -> {"none", "active", "done"}]
      /\ job \in {"exited", "stopped", "cancelled"} => task'["stop"] # "active"
      /\ job = "cancelled" => task'["launch"] # "active"
      /\ job # "cancelled" => task'["launch"] = task["launch"]
      /\ job \in {"rolledback", "failed"} => task' = task
  BY <1>3 DEF Finish, CancelledTask, Move, PanelTypes
<1>5. /\ shown' \in {NoState} \cup Shown
      /\ \/ shown' = shown /\ job \in {"rolledback", "failed"}
         \/ shown' # NoState /\ shown'.instance = "Exited" /\ ~shown'.force
  BY <1>3, Labels DEF Show, PanelTypes, Instances
<1>6. PanelTypes'
  BY <1>1, <1>2, <1>3, <1>4, <1>5 DEF PanelTypes, Left, Leaves
<1>7. Counted'
  BY <1>1, HandlerCounted DEF Left, JobDone
<1>8. LaunchAlone'
  BY <1>2 DEF LaunchAlone
<1>9. ListCurrent'
  BY <1>2 DEF ListCurrent, Stoppable
<1>10. BusyKept'
  BY <1>1, <1>2, <1>3, <1>5 DEF Left, Leaves, BusyKept, Telling, Busy
<1>11. LaunchKept'
  BY <1>1, <1>2, <1>3, <1>4 DEF Left, Leaves, LaunchKept
<1>12. StopKept'
  BY <1>1, <1>2, <1>3, <1>4 DEF Left, Leaves, StopKept, Telling
<1>13. AskedIsBacked'
  BY <1>1, <1>2, <1>3, <1>5 DEF Left, Leaves, AskedIsBacked
<1>14. DisplaysBacked'
  BY <1>1, <1>2 DEF Left, Leaves, DisplaysBacked
<1> QED
  BY <1>6, <1>7, <1>8, <1>9, <1>10, <1>11, <1>12, <1>13, <1>14

\* A cleanup that fails says so.
LEMMA JobFailedKept ==
    ASSUME PanelInv, JobFailed
    PROVE  PanelInv'
<1> USE DEF PanelInv
<1>1. Left("nothing")
  BY NothingTaken DEF JobFailed
<1>2. UNCHANGED <<target, saved, asked, list, op, program, jobs, slot, row, inbox, batch, clicks, known>>
  BY DEF JobFailed
<1>3. /\ task' \in [{"launch", "stop"} -> {"none", "active", "done"}]
      /\ task'["stop"] # "active" /\ task'["launch"] = task["launch"]
  BY DEF JobFailed, Finish, Move, PanelTypes
<1>4. shown' \in Shown /\ shown' # NoState /\ shown'.instance = "Failed" /\ ~shown'.force
  BY Labels DEF JobFailed, Show, PanelTypes, Instances
<1>5. PanelTypes'
  BY <1>1, <1>2, <1>3, <1>4 DEF PanelTypes, Left
<1>6. Counted'
  BY <1>1, HandlerCounted DEF Left, JobFailed
<1>7. LaunchAlone'
  BY <1>2 DEF LaunchAlone
<1>8. ListCurrent'
  BY <1>2 DEF ListCurrent, Stoppable
<1>9. BusyKept'
  BY <1>1, <1>2, <1>4 DEF Left, Leaves, BusyKept, Telling, Busy
<1>10. LaunchKept'
  BY <1>1, <1>2, <1>3 DEF Left, Leaves, LaunchKept
<1>11. StopKept'
  BY <1>1, <1>2, <1>3 DEF Left, Leaves, StopKept, Telling
<1>12. AskedIsBacked'
  BY <1>1, <1>2, <1>4 DEF Left, Leaves, AskedIsBacked
<1>13. DisplaysBacked'
  BY <1>1, <1>2 DEF Left, Leaves, DisplaysBacked
<1> QED
  BY <1>5, <1>6, <1>7, <1>8, <1>9, <1>10, <1>11, <1>12, <1>13

\* A batch begins.
LEMMA BeginBatchKept ==
    ASSUME PanelInv, BeginBatch
    PROVE  PanelInv'
<1> USE DEF PanelInv
<1>1. Left("nothing")
  BY NothingTaken DEF BeginBatch
<1>2. /\ batch' = "clean" /\ batch = "none"
      /\ UNCHANGED <<target, saved, shown, task, asked, list, op, program, jobs, slot, row, inbox, clicks, known>>
  BY DEF BeginBatch
<1>3. PanelTypes'
  BY <1>1, <1>2 DEF PanelTypes, Left, Leaves
<1>4. Counted'
  BY <1>1, HandlerCounted DEF Left, BeginBatch
<1>5. LaunchAlone'
  BY <1>2 DEF LaunchAlone
<1>6. ListCurrent'
  BY <1>2 DEF ListCurrent, Stoppable
<1>7. BusyKept'
  BY <1>1, <1>2 DEF Left, Leaves, BusyKept, Telling, Busy
<1>8. LaunchKept'
  BY <1>1, <1>2 DEF Left, Leaves, LaunchKept
<1>9. StopKept'
  BY <1>1, <1>2 DEF Left, Leaves, StopKept, Telling
<1>10. AskedIsBacked'
  BY <1>1, <1>2 DEF Left, Leaves, AskedIsBacked
<1>11. DisplaysBacked'
  BY <1>1, <1>2 DEF Left, Leaves, DisplaysBacked
<1> QED
  BY <1>3, <1>4, <1>5, <1>6, <1>7, <1>8, <1>9, <1>10, <1>11

\* A batch that changed ownership ends with a new list.
LEMMA EndBatchKept ==
    ASSUME PanelInv, EndBatch
    PROVE  PanelInv'
<1> USE DEF PanelInv
<1>1. Left("nothing")
  BY NothingTaken DEF EndBatch
<1>2. /\ batch' = "none"
      /\ UNCHANGED <<target, saved, shown, task, asked, op, program, jobs, slot, row, inbox, clicks, known>>
  BY DEF EndBatch
<1>3. /\ list' \in [active : BOOLEAN, stoppable : {"no", "active", "pending"}]
      /\ list'.stoppable = Stoppable(op, program)
  BY DEF EndBatch, Stoppable, PanelTypes, ListCurrent
<1>4. PanelTypes'
  BY <1>1, <1>2, <1>3 DEF PanelTypes, Left, Leaves
<1>5. Counted'
  BY <1>1, HandlerCounted DEF Left, EndBatch
<1>6. LaunchAlone'
  BY <1>2, <1>3 DEF LaunchAlone
<1>7. ListCurrent'
  BY <1>2, <1>3 DEF ListCurrent, Stoppable
<1>8. BusyKept'
  BY <1>1, <1>2, <1>3 DEF Left, Leaves, BusyKept, Telling, Busy
<1>9. LaunchKept'
  BY <1>1, <1>2, <1>3 DEF Left, Leaves, LaunchKept
<1>10. StopKept'
  BY <1>1, <1>2, <1>3 DEF Left, Leaves, StopKept, Telling
<1>11. AskedIsBacked'
  BY <1>1, <1>2, <1>3 DEF Left, Leaves, AskedIsBacked
<1>12. DisplaysBacked'
  BY <1>1, <1>2 DEF Left, Leaves, DisplaysBacked
<1> QED
  BY <1>4, <1>5, <1>6, <1>7, <1>8, <1>9, <1>10, <1>11, <1>12

-----------------------------------------------------------------------------
(* The managed display.                                                    *)

DisplaySlots == [pending : BOOLEAN, window : Nat, jobs : SUBSET {"told", "silent"}, lost : Nat]
DisplayRows == [pending : BOOLEAN, closing : BOOLEAN, window : Nat]

\* The counts of a handler that moves one attempt at most from a message to a start under way,
\* from there to a window or to a start that is lost.
LEMMA DisplayCounted ==
    ASSUME PanelInv, slot' \in DisplaySlots, row' \in DisplayRows, clicks' \in [all : Nat, windows : Nat],
           Len(inbox') \in Nat, Len(inbox) \in Nat, Len(inbox') <= Len(inbox), clicks'.all = clicks.all,
           clicks'.windows + slot'.lost + (IF slot'.pending THEN 1 ELSE 0) + Len(inbox')
               <= clicks.windows + slot.lost + (IF slot.pending THEN 1 ELSE 0) + Len(inbox),
           row'.window <= clicks'.windows, slot'.window <= clicks'.windows,
           slot'.window # 0 => row'.window = slot'.window
    PROVE  Counted'
<1>1. /\ clicks.all \in Nat /\ clicks.windows \in Nat /\ slot.lost \in Nat
      /\ clicks'.windows \in Nat /\ slot'.lost \in Nat
  BY DEF PanelInv, PanelTypes, DisplaySlots
<1>2. PICK n \in Nat : n = clicks.windows + slot.lost + (IF slot.pending THEN 1 ELSE 0) + Len(inbox)
  BY <1>1
<1>3. PICK k \in Nat : k = clicks'.windows + slot'.lost + (IF slot'.pending THEN 1 ELSE 0) + Len(inbox')
  BY <1>1
<1>4. Attempted' = k /\ Attempted = n /\ k <= n
  BY <1>2, <1>3 DEF Attempted
<1>5. n <= clicks.all /\ clicks.all <= MaxClicks /\ Len(inbox) <= MaxInbox
  BY <1>4 DEF PanelInv, Counted
<1>6. Attempted' <= clicks'.all /\ clicks'.all <= MaxClicks
  BY <1>1, <1>4, <1>5
<1>7. Len(inbox') <= MaxInbox
  BY <1>5, PanelSessionsAssumption
<1> QED
  BY <1>6, <1>7 DEF Counted

LEMMA RowsForgotten ==
    ASSUME row \in DisplayRows, NoRows
    PROVE  row' \in DisplayRows /\ ~row'.pending /\ ~row'.closing /\ row'.window = row.window
BY DEF NoRows, DisplayRows

LEMMA SyncedFacts ==
    ASSUME row \in DisplayRows, NEW w \in Nat
    PROVE  /\ Synced(w) \in DisplayRows /\ Synced(w).window = w
           /\ Synced(w).pending => row.pending
           /\ Synced(w).closing => row.closing
           /\ w # row.window /\ w # 0 => ~Synced(w).pending
           /\ w # row.window /\ w = 0 => ~Synced(w).closing
<1>1. CASE w = row.window
  BY <1>1 DEF Synced
<1>2. CASE w # row.window
  <2> DEFINE p == row.pending /\ w = 0
             c == row.closing /\ w # 0
  <2>1. Synced(w) = [window |-> w, pending |-> p, closing |-> c]
    BY <1>2 DEF Synced
  <2>2. p \in BOOLEAN /\ c \in BOOLEAN
    OBVIOUS
  <2>3. (p => row.pending /\ w = 0) /\ (c => row.closing /\ w # 0)
    OBVIOUS
  <2> HIDE DEF p, c
  <2>4. Synced(w) \in DisplayRows
    BY <2>1, <2>2 DEF DisplayRows
  <2> QED
    BY <1>2, <2>1, <2>3, <2>4
<1> QED
  BY <1>1, <1>2

LEMMA ClosedSlot ==
    ASSUME slot \in DisplaySlots,
           \/ UNCHANGED slot /\ NoRows
           \/ slot.pending /\ slot' = [slot EXCEPT !.pending = FALSE, !.lost = @ + 1] /\ NoRows
           \/ /\ slot.window # 0 /\ ~slot.pending
              /\ slot' = [slot EXCEPT !.window = 0, !.jobs = @ \cup {"told"}] /\ row' = Synced(0)
    PROVE  slot' \in DisplaySlots
<1>1. CASE UNCHANGED slot
  BY <1>1
<1>2. CASE slot' = [slot EXCEPT !.pending = FALSE, !.lost = @ + 1]
  <2>1. PICK l \in Nat : l = slot.lost + 1
    BY DEF DisplaySlots
  <2>2. slot' = [slot EXCEPT !.pending = FALSE, !.lost = l]
    BY <1>2, <2>1
  <2> QED
    BY <2>2 DEF DisplaySlots
<1>3. CASE slot' = [slot EXCEPT !.window = 0, !.jobs = @ \cup {"told"}]
  BY <1>3 DEF DisplaySlots
<1> QED
  BY <1>1, <1>2, <1>3

LEMMA ClosedCount ==
    ASSUME NEW a \in Nat, NEW n \in Nat, NEW n1 \in Nat, NEW l \in Nat, NEW l1, NEW p, NEW p1,
           n1 = n - 1, (p1 = p /\ l1 = l) \/ (p /\ ~p1 /\ l1 = l + 1)
    PROVE  a + l1 + (IF p1 THEN 1 ELSE 0) + n1 <= a + l + (IF p THEN 1 ELSE 0) + n
<1>1. CASE p1 = p /\ l1 = l
  <2>1. PICK k \in Nat : k = IF p THEN 1 ELSE 0
    OBVIOUS
  <2> QED
    BY <1>1, <2>1
<1>2. CASE p /\ ~p1 /\ l1 = l + 1
  BY <1>2
<1> QED
  BY <1>1, <1>2

\* What one reap of the displays finds.
LEMMA DisplayReapsFacts ==
    ASSUME PanelInv, NEW r \in DisplayReaps
    PROVE  /\ r.slot \in DisplaySlots /\ r.slot.pending = slot.pending /\ r.slot.lost = slot.lost
           /\ r.slot.window \in {0, slot.window}
           /\ \/ r.program = program /\ r.jobs = jobs
              \/ program # "none" /\ r.program = "none" /\ r.jobs = jobs \cup {"stopped"}
<1>1. slot \in DisplaySlots
  BY DEF PanelInv, PanelTypes, DisplaySlots
<1>2. CASE r = [slot |-> slot, program |-> program, jobs |-> jobs]
  BY <1>1, <1>2
<1>3. CASE /\ slot.window # 0
           /\ r = [slot |-> [slot EXCEPT !.window = 0, !.jobs = @ \cup {"told"}],
                   program |-> IF target = "slot" THEN "none" ELSE program,
                   jobs |-> IF target = "slot" /\ program # "none" THEN jobs \cup {"stopped"} ELSE jobs]
  <2> DEFINE gone == [slot EXCEPT !.window = 0, !.jobs = @ \cup {"told"}]
  <2>1. gone \in DisplaySlots /\ gone.pending = slot.pending /\ gone.lost = slot.lost /\ gone.window = 0
    BY <1>1 DEF DisplaySlots
  <2> HIDE DEF gone
  <2>2. r.slot = gone /\ r.program = (IF target = "slot" THEN "none" ELSE program)
        /\ r.jobs = IF target = "slot" /\ program # "none" THEN jobs \cup {"stopped"} ELSE jobs
    BY <1>3 DEF gone
  <2> QED
    BY <2>1, <2>2
<1> QED
  BY <1>2, <1>3 DEF DisplayReaps


LEMMA CreateFacts ==
    ASSUME PanelInv, CreateManagedDisplay, row \in DisplayRows
    PROVE  /\ slot' \in DisplaySlots /\ row' \in DisplayRows /\ slot'.lost = slot.lost
           /\ slot'.window \in {0, slot.window} /\ row'.window = row.window
           /\ row'.pending => slot'.pending
           /\ ~row'.pending => ~row'.closing
           /\ row'.closing => row.closing
<1>1. PICK r \in DisplayReaps :
          \/ slot' = r.slot /\ NoRows
          \/ slot' = [r.slot EXCEPT !.pending = TRUE] /\ row' = [row EXCEPT !.pending = TRUE]
  BY DEF CreateManagedDisplay
<1>2. PICK s : s = r.slot
  OBVIOUS
<1>3. s \in DisplaySlots /\ s.lost = slot.lost /\ s.window \in {0, slot.window}
  BY <1>2, DisplayReapsFacts
<1>4. CASE slot' = s /\ NoRows
  BY <1>3, <1>4, RowsForgotten
<1>5. CASE slot' = [s EXCEPT !.pending = TRUE] /\ row' = [row EXCEPT !.pending = TRUE]
  <2>1. slot' \in DisplaySlots /\ slot'.pending /\ slot'.lost = s.lost /\ slot'.window = s.window
    BY <1>3, <1>5 DEF DisplaySlots
  <2>2. row' \in DisplayRows /\ row'.pending /\ row'.window = row.window /\ row'.closing = row.closing
    BY <1>5 DEF DisplayRows
  <2> QED
    BY <1>3, <2>1, <2>2
<1> QED
  BY <1>1, <1>2, <1>4, <1>5


\* A new display is started, or its row is forgotten.
LEMMA CreateKept ==
    ASSUME PanelInv, CreateManagedDisplay
    PROVE  PanelInv'
<1> USE DEF PanelInv
<1>1. Left("create")
  BY MessageTaken DEF CreateManagedDisplay, Quiet
<1>2. slot \in DisplaySlots /\ row \in DisplayRows /\ clicks \in [all : Nat, windows : Nat]
  BY DEF PanelTypes, DisplaySlots, DisplayRows
<1>3. /\ clicks.windows \in Nat /\ slot.lost \in Nat /\ row.window <= clicks.windows /\ slot.window <= clicks.windows
      /\ row.window \in Nat /\ slot.window \in Nat
      /\ slot.window # 0 => row.window = slot.window
  BY <1>2 DEF Counted, DisplaySlots, DisplayRows
<1>4. /\ batch' = "dirty" /\ batch # "none"
      /\ UNCHANGED <<target, saved, shown, task, asked, list, op, clicks, known>>
  BY DEF CreateManagedDisplay, Dirty
<1>5. Len(inbox') = Len(inbox) - 1
  BY MessageLeaves DEF CreateManagedDisplay, PanelTypes
<1>6. \/ program' = program /\ jobs' = jobs
      \/ program # "none" /\ program' = "none" /\ jobs' = jobs \cup {"stopped"}
  BY DisplayReapsFacts DEF CreateManagedDisplay
<1>7. /\ slot' \in DisplaySlots /\ row' \in DisplayRows /\ slot'.lost = slot.lost
      /\ slot'.window \in {0, slot.window} /\ row'.window = row.window
      /\ row'.pending => slot'.pending
      /\ ~row'.pending => ~row'.closing
      /\ row'.closing => row.closing
      /\ slot'.pending => slot.pending \/ Len(inbox') = Len(inbox) - 1
  BY <1>2, <1>5, CreateFacts
<1>8. jobs' \subseteq Jobs /\ program' \in {"none", "running", "stopping", "offered"}
  BY <1>6 DEF PanelTypes, Jobs
<1>9. PanelTypes'
  BY <1>1, <1>2, <1>3, <1>4, <1>5, <1>6, <1>7, <1>8 DEF PanelTypes, Left, Leaves, DisplaySlots,
     DisplayRows
<1>10. Counted'
  <2>1. /\ Len(inbox') \in Nat /\ Len(inbox) \in Nat /\ Len(inbox') <= Len(inbox)
        /\ clicks'.all = clicks.all /\ clicks'.windows = clicks.windows
    BY <1>1, <1>4 DEF Left
  <2>2. slot.pending \in BOOLEAN /\ slot'.pending \in BOOLEAN
    BY <1>2, <1>7 DEF DisplaySlots
  <2>3. (IF slot'.pending THEN 1 ELSE 0) + Len(inbox') <= (IF slot.pending THEN 1 ELSE 0) + Len(inbox)
    BY <1>7, <2>1, <2>2
  <2>4. clicks'.windows + slot'.lost + (IF slot'.pending THEN 1 ELSE 0) + Len(inbox')
            <= clicks.windows + slot.lost + (IF slot.pending THEN 1 ELSE 0) + Len(inbox)
    BY <1>3, <1>7, <2>1, <2>3
  <2>5. /\ row'.window <= clicks'.windows /\ slot'.window <= clicks'.windows
        /\ slot'.window # 0 => row'.window = slot'.window
    BY <1>3, <1>7, <2>1
  <2> QED
    BY <1>2, <1>4, <1>7, <2>1, <2>4, <2>5, DisplayCounted
<1>11. LaunchAlone'
  BY <1>4, <1>6, <1>8 DEF LaunchAlone
<1>12. ListCurrent'
  BY <1>4, <1>6, <1>8 DEF ListCurrent, Stoppable
<1>13. BusyKept'
  BY <1>1, <1>4, <1>5, <1>6, <1>7, <1>8 DEF Left, Leaves, BusyKept, Telling, Busy
<1>14. LaunchKept'
  BY <1>1, <1>4, <1>5, <1>6, <1>7, <1>8 DEF Left, Leaves, LaunchKept
<1>15. StopKept'
  BY <1>1, <1>4, <1>5, <1>6, <1>7, <1>8 DEF Left, Leaves, StopKept, Telling
<1>16. AskedIsBacked'
  BY <1>1, <1>4, <1>5, <1>6, <1>7, <1>8 DEF Left, Leaves, AskedIsBacked
<1>17. DisplaysBacked'
  BY <1>1, <1>2, <1>3, <1>5, <1>7 DEF Left, Leaves, DisplaySlots, DisplayRows, DisplaysBacked
<1> QED
  BY <1>9, <1>10, <1>11, <1>12, <1>13, <1>14, <1>15, <1>16, <1>17

\* A display that comes up gets its row, or is taken down.
LEMMA StartedDisplayKept ==
    ASSUME PanelInv, ManagedDisplayStarted
    PROVE  PanelInv'
<1> USE DEF PanelInv
<1>1. Left("nothing")
  BY NothingTaken DEF ManagedDisplayStarted, Quiet
<1>2. slot \in DisplaySlots /\ row \in DisplayRows /\ clicks \in [all : Nat, windows : Nat]
  BY DEF PanelTypes, DisplaySlots, DisplayRows
<1>3. /\ clicks.windows \in Nat /\ slot.lost \in Nat /\ row.window <= clicks.windows /\ slot.window <= clicks.windows
      /\ row.window \in Nat /\ slot.window \in Nat
      /\ slot.window # 0 => row.window = slot.window
  BY <1>2 DEF Counted, DisplaySlots, DisplayRows
<1>4. batch # "none" /\ UNCHANGED <<target, saved, shown, task, asked, list, op, program, jobs, batch, known>>
  BY DEF ManagedDisplayStarted, Quiet
<1>5. slot.pending /\ inbox' = inbox
  BY DEF ManagedDisplayStarted
<1>6. \/ /\ slot' = [slot EXCEPT !.pending = FALSE, !.jobs = @ \cup {"silent"}]
         /\ NoRows /\ UNCHANGED clicks
      \/ /\ clicks' = [clicks EXCEPT !.windows = @ + 1]
         /\ slot' = [slot EXCEPT !.pending = FALSE, !.window = clicks'.windows]
         /\ row' = Synced(clicks'.windows)
  BY DEF ManagedDisplayStarted
<1>7. \/ UNCHANGED clicks
      \/ /\ clicks' \in [all : Nat, windows : Nat] /\ clicks'.windows = clicks.windows + 1
         /\ clicks'.all = clicks.all
  BY <1>2, <1>6
<1>8. clicks'.windows \in Nat /\ clicks' \in [all : Nat, windows : Nat]
  BY <1>2, <1>7
<1>9. /\ slot' \in DisplaySlots /\ ~slot'.pending /\ slot'.lost = slot.lost
      /\ \/ slot'.window = slot.window /\ UNCHANGED clicks
         \/ slot'.window = clicks'.windows /\ clicks'.windows = clicks.windows + 1
  BY <1>2, <1>6, <1>7, <1>8 DEF DisplaySlots
<1>10. /\ row' \in DisplayRows /\ ~row'.pending /\ (row'.closing => row.closing)
       /\ \/ row'.window = row.window /\ slot'.window = slot.window /\ UNCHANGED clicks
          \/ row'.window = slot'.window
  BY <1>2, <1>3, <1>6, <1>7, <1>8, <1>9, RowsForgotten, SyncedFacts
<1>11. PanelTypes'
  BY <1>1, <1>2, <1>3, <1>4, <1>5, <1>6, <1>7, <1>8, <1>9, <1>10 DEF PanelTypes, Left, Leaves,
     DisplaySlots, DisplayRows
<1>12. Counted'
  <2>1. Len(inbox') \in Nat /\ Len(inbox) \in Nat /\ Len(inbox') = Len(inbox) /\ clicks'.all = clicks.all
    BY <1>1, <1>5, <1>7 DEF Left
  <2>2. clicks'.windows + (IF slot'.pending THEN 1 ELSE 0) <= clicks.windows + (IF slot.pending THEN 1 ELSE 0)
    BY <1>3, <1>5, <1>9
  <2>3. clicks'.windows + slot'.lost + (IF slot'.pending THEN 1 ELSE 0) + Len(inbox')
            <= clicks.windows + slot.lost + (IF slot.pending THEN 1 ELSE 0) + Len(inbox)
    BY <1>3, <1>8, <1>9, <2>1, <2>2
  <2>4. /\ row'.window <= clicks'.windows /\ slot'.window <= clicks'.windows
        /\ slot'.window # 0 => row'.window = slot'.window
    BY <1>3, <1>9, <1>10
  <2> QED
    BY <1>8, <1>9, <1>10, <2>1, <2>3, <2>4, DisplayCounted
<1>13. LaunchAlone'
  BY <1>4, <1>6 DEF LaunchAlone
<1>14. ListCurrent'
  BY <1>4 DEF ListCurrent, Stoppable
<1>15. BusyKept'
  BY <1>1, <1>4, <1>5, <1>6 DEF Left, Leaves, BusyKept, Telling, Busy
<1>16. LaunchKept'
  BY <1>1, <1>4, <1>5, <1>6 DEF Left, Leaves, LaunchKept
<1>17. StopKept'
  BY <1>1, <1>4, <1>5, <1>6 DEF Left, Leaves, StopKept, Telling
<1>18. AskedIsBacked'
  BY <1>1, <1>4, <1>5, <1>6 DEF Left, Leaves, AskedIsBacked
<1>19. DisplaysBacked'
  BY <1>1, <1>2, <1>3, <1>5, <1>6, <1>9, <1>10 DEF Left, Leaves, DisplaySlots, DisplayRows,
     DisplaysBacked
<1> QED
  BY <1>11, <1>12, <1>13, <1>14, <1>15, <1>16, <1>17, <1>18, <1>19

\* A display that fails loses its row.
LEMMA FailedDisplayKept ==
    ASSUME PanelInv, ManagedDisplayFailed
    PROVE  PanelInv'
<1> USE DEF PanelInv
<1>1. Left("nothing")
  BY NothingTaken DEF ManagedDisplayFailed, Quiet
<1>2. slot \in DisplaySlots /\ row \in DisplayRows /\ clicks \in [all : Nat, windows : Nat]
  BY DEF PanelTypes, DisplaySlots, DisplayRows
<1>3. /\ clicks.windows \in Nat /\ slot.lost \in Nat /\ row.window <= clicks.windows /\ slot.window <= clicks.windows
      /\ row.window \in Nat /\ slot.window \in Nat
      /\ slot.window # 0 => row.window = slot.window
  BY <1>2 DEF Counted, DisplaySlots, DisplayRows
<1>4. batch # "none" /\ UNCHANGED <<target, saved, shown, task, asked, list, op, program, jobs, batch, known>>
  BY DEF ManagedDisplayFailed, Quiet
<1>5. /\ slot' = [slot EXCEPT !.pending = FALSE] /\ NoRows
  BY DEF ManagedDisplayFailed
<1>6. /\ slot' \in DisplaySlots /\ ~slot'.pending /\ slot'.lost = slot.lost /\ slot'.window = slot.window
  BY <1>2, <1>5 DEF DisplaySlots
<1>7. /\ row' \in DisplayRows /\ ~row'.pending /\ ~row'.closing /\ row'.window = row.window
  BY <1>2, <1>5, RowsForgotten
<1>8. inbox' = inbox /\ clicks' = clicks
  BY DEF ManagedDisplayFailed
<1>9. PanelTypes'
  BY <1>4, <1>6, <1>7, <1>8 DEF PanelTypes, DisplaySlots, DisplayRows
<1>10. Counted'
  BY <1>1, <1>2, <1>3, <1>6, <1>7, <1>8, DisplayCounted DEF Left, DisplaySlots, DisplayRows
<1>11. LaunchAlone'
  BY <1>4 DEF LaunchAlone
<1>12. ListCurrent'
  BY <1>4 DEF ListCurrent, Stoppable
<1>13. BusyKept'
  BY <1>1, <1>4, <1>8 DEF Left, Leaves, BusyKept, Telling, Busy
<1>14. LaunchKept'
  BY <1>1, <1>4, <1>8 DEF Left, Leaves, LaunchKept
<1>15. StopKept'
  BY <1>1, <1>4, <1>8 DEF Left, Leaves, StopKept, Telling
<1>16. AskedIsBacked'
  BY <1>1, <1>4, <1>8 DEF Left, Leaves, AskedIsBacked
<1>17. DisplaysBacked'
  BY <1>1, <1>2, <1>3, <1>5, <1>6, <1>7, <1>8 DEF Left, Leaves, DisplaySlots, DisplayRows,
     DisplaysBacked
<1> QED
  BY <1>9, <1>10, <1>11, <1>12, <1>13, <1>14, <1>15, <1>16, <1>17

\* A display of a cancelled attempt is taken down without a row.
LEMMA LostDisplayKept ==
    ASSUME PanelInv, LostDisplayStarted
    PROVE  PanelInv'
<1> USE DEF PanelInv
<1>1. Left("nothing")
  BY NothingTaken DEF LostDisplayStarted, Quiet
<1>2. slot \in DisplaySlots /\ row \in DisplayRows /\ clicks \in [all : Nat, windows : Nat]
  BY DEF PanelTypes, DisplaySlots, DisplayRows
<1>3. /\ clicks.windows \in Nat /\ slot.lost \in Nat /\ row.window <= clicks.windows /\ slot.window <= clicks.windows
      /\ row.window \in Nat /\ slot.window \in Nat
      /\ slot.window # 0 => row.window = slot.window
  BY <1>2 DEF Counted, DisplaySlots, DisplayRows
<1>4. batch # "none" /\ UNCHANGED <<target, saved, shown, task, asked, list, op, program, jobs, batch, known>>
  BY DEF LostDisplayStarted, Quiet
<1>5. /\ slot.lost > 0 /\ row' = row /\ inbox' = inbox /\ clicks' = clicks
      /\ \/ slot' = [slot EXCEPT !.lost = @ - 1, !.jobs = @ \cup {}]
         \/ slot' = [slot EXCEPT !.lost = @ - 1, !.jobs = @ \cup {"silent"}]
  BY DEF LostDisplayStarted
<1>6. /\ slot.lost - 1 \in Nat
      /\ slot.jobs \cup {} \in SUBSET {"told", "silent"} /\ slot.jobs \cup {"silent"} \in SUBSET {"told", "silent"}
  BY <1>2, <1>3, <1>5 DEF DisplaySlots
<1>7. slot' \in DisplaySlots
  BY <1>2, <1>5, <1>6 DEF DisplaySlots
<1>8. /\ slot'.pending = slot.pending /\ slot'.lost = slot.lost - 1
      /\ slot'.window = slot.window
  BY <1>2, <1>5 DEF DisplaySlots
<1>9. PanelTypes'
  BY <1>1, <1>2, <1>3, <1>4, <1>5, <1>6, <1>7, <1>8 DEF PanelTypes, Left, Leaves, DisplaySlots,
     DisplayRows
<1>10. Counted'
  BY <1>1, <1>2, <1>3, <1>4, <1>5, <1>6, <1>7, <1>8, DisplayCounted DEF Left, DisplaySlots, DisplayRows
<1>11. LaunchAlone'
  BY <1>4, <1>5, <1>6 DEF LaunchAlone
<1>12. ListCurrent'
  BY <1>4 DEF ListCurrent, Stoppable
<1>13. BusyKept'
  BY <1>1, <1>4, <1>5, <1>6 DEF Left, Leaves, BusyKept, Telling, Busy
<1>14. LaunchKept'
  BY <1>1, <1>4, <1>5, <1>6 DEF Left, Leaves, LaunchKept
<1>15. StopKept'
  BY <1>1, <1>4, <1>5, <1>6 DEF Left, Leaves, StopKept, Telling
<1>16. AskedIsBacked'
  BY <1>1, <1>4, <1>5, <1>6 DEF Left, Leaves, AskedIsBacked
<1>17. DisplaysBacked'
  BY <1>1, <1>2, <1>3, <1>5, <1>6, <1>7, <1>8 DEF Left, Leaves, DisplaySlots, DisplayRows,
     DisplaysBacked
<1> QED
  BY <1>9, <1>10, <1>11, <1>12, <1>13, <1>14, <1>15, <1>16, <1>17

\* A close cancels the start, takes the window down, or is refused.
LEMMA CloseKept ==
    ASSUME PanelInv, CloseManagedDisplay
    PROVE  PanelInv'
<1> USE DEF PanelInv
<1>1. Left("close")
  BY MessageTaken DEF CloseManagedDisplay, Quiet
<1>2. slot \in DisplaySlots /\ row \in DisplayRows /\ clicks \in [all : Nat, windows : Nat]
  BY DEF PanelTypes, DisplaySlots, DisplayRows
<1>3. /\ clicks.windows \in Nat /\ slot.lost \in Nat /\ row.window <= clicks.windows /\ slot.window <= clicks.windows
      /\ row.window \in Nat /\ slot.window \in Nat
      /\ slot.window # 0 => row.window = slot.window
  BY <1>2 DEF Counted, DisplaySlots, DisplayRows
<1>4. batch # "none" /\ UNCHANGED <<target, saved, shown, task, asked, list, op, program, jobs, batch, known>>
  BY DEF CloseManagedDisplay, Quiet
<1>5. clicks' = clicks
  BY DEF CloseManagedDisplay
<1>6. Len(inbox') = Len(inbox) - 1
  BY MessageLeaves DEF CloseManagedDisplay, PanelTypes
<1>7. \/ UNCHANGED slot /\ NoRows
      \/ slot.pending /\ slot' = [slot EXCEPT !.pending = FALSE, !.lost = @ + 1] /\ NoRows
      \/ /\ slot.window # 0 /\ ~slot.pending
         /\ slot' = [slot EXCEPT !.window = 0, !.jobs = @ \cup {"told"}] /\ row' = Synced(0)
  BY DEF CloseManagedDisplay
<1>8. slot.lost + 1 \in Nat /\ clicks'.windows = clicks.windows
  BY <1>3, <1>5
<1>9. slot' \in DisplaySlots
  BY <1>2, <1>7, ClosedSlot
<1>10. \/ slot'.pending = slot.pending /\ slot'.lost = slot.lost /\ slot'.window \in {0, slot.window}
       \/ slot.pending /\ ~slot'.pending /\ slot'.lost = slot.lost + 1 /\ slot'.window = slot.window
  BY <1>2, <1>7 DEF DisplaySlots
<1>11. /\ row' \in DisplayRows /\ ~row'.closing
       /\ \/ ~row'.pending /\ row'.window = row.window /\ slot'.window = slot.window
          \/ slot' = [slot EXCEPT !.window = 0, !.jobs = @ \cup {"told"}] /\ row'.window = 0 /\ (row'.pending => row.pending)
  BY <1>2, <1>3, <1>7, RowsForgotten, SyncedFacts DEF DisplaySlots
<1>12. /\ row' \in DisplayRows
       /\ \/ ~row'.pending /\ row'.window = row.window /\ slot'.window = slot.window
          \/ slot'.pending = slot.pending /\ slot'.window = 0 /\ row'.window = 0 /\ (row'.pending => row.pending)
  BY <1>2, <1>11 DEF DisplaySlots
<1>13. clicks'.windows + slot'.lost + (IF slot'.pending THEN 1 ELSE 0) + Len(inbox')
          <= clicks.windows + slot.lost + (IF slot.pending THEN 1 ELSE 0) + Len(inbox)
  BY <1>1, <1>3, <1>6, <1>8, <1>10, ClosedCount DEF Left
<1>14. /\ clicks' \in [all : Nat, windows : Nat] /\ clicks'.all = clicks.all
       /\ row'.window <= clicks'.windows /\ slot'.window <= clicks'.windows
       /\ slot'.window # 0 => row'.window = slot'.window
  BY <1>2, <1>3, <1>5, <1>12
<1>15. PanelTypes'
  BY <1>1, <1>4, <1>9, <1>12, <1>14 DEF PanelTypes, Left, DisplaySlots, DisplayRows
<1>16. Counted'
  BY <1>1, <1>9, <1>12, <1>13, <1>14, DisplayCounted DEF Left, DisplaySlots, DisplayRows
<1>17. LaunchAlone'
  BY <1>4, <1>7, <1>11 DEF LaunchAlone
<1>18. ListCurrent'
  BY <1>4 DEF ListCurrent, Stoppable
<1>19. BusyKept'
  BY <1>1, <1>4, <1>6, <1>7, <1>11, <1>13 DEF Left, Leaves, BusyKept, Telling, Busy
<1>20. LaunchKept'
  BY <1>1, <1>4, <1>6, <1>7, <1>11, <1>13 DEF Left, Leaves, LaunchKept
<1>21. StopKept'
  BY <1>1, <1>4, <1>6, <1>7, <1>11, <1>13 DEF Left, Leaves, StopKept, Telling
<1>22. AskedIsBacked'
  BY <1>1, <1>4, <1>6, <1>7, <1>11, <1>13 DEF Left, Leaves, AskedIsBacked
<1>23. DisplaysBacked'
  BY <1>1, <1>2, <1>3, <1>6, <1>7, <1>8, <1>9, <1>10, <1>11, <1>12, <1>13, <1>14 DEF Left, Leaves,
     DisplaySlots, DisplayRows, DisplaysBacked
<1> QED
  BY <1>15, <1>16, <1>17, <1>18, <1>19, <1>20, <1>21, <1>22, <1>23

\* A cleanup of a display forgets its row.
LEMMA SlotJobKept ==
    ASSUME PanelInv, SlotJobEnds
    PROVE  PanelInv'
<1> USE DEF PanelInv
<1>1. Left("nothing")
  BY NothingTaken DEF SlotJobEnds, Quiet
<1>2. slot \in DisplaySlots /\ row \in DisplayRows /\ clicks \in [all : Nat, windows : Nat]
  BY DEF PanelTypes, DisplaySlots, DisplayRows
<1>3. /\ clicks.windows \in Nat /\ slot.lost \in Nat /\ row.window <= clicks.windows /\ slot.window <= clicks.windows
      /\ row.window \in Nat /\ slot.window \in Nat
      /\ slot.window # 0 => row.window = slot.window
  BY <1>2 DEF Counted, DisplaySlots, DisplayRows
<1>4. batch # "none" /\ UNCHANGED <<target, saved, shown, task, asked, list, op, program, jobs, batch, known>>
  BY DEF SlotJobEnds, Quiet
<1>5. clicks' = clicks /\ inbox' = inbox
  BY DEF SlotJobEnds
<1>6. /\ slot' \in DisplaySlots /\ slot'.pending = slot.pending /\ slot'.lost = slot.lost
      /\ slot'.window = slot.window
  BY <1>2 DEF SlotJobEnds, DisplaySlots
<1>7. /\ row' \in DisplayRows /\ row'.window = row.window
      /\ (row'.closing => row.closing) /\ (row'.pending => row.pending)
  BY <1>2, RowsForgotten DEF SlotJobEnds
<1>8. PanelTypes'
  BY <1>1, <1>2, <1>3, <1>4, <1>5, <1>6, <1>7 DEF PanelTypes, Left, Leaves, DisplaySlots, DisplayRows
<1>9. Counted'
  BY <1>1, <1>2, <1>3, <1>4, <1>5, <1>6, <1>7, DisplayCounted DEF Left, DisplaySlots, DisplayRows
<1>10. LaunchAlone'
  BY <1>4 DEF LaunchAlone
<1>11. ListCurrent'
  BY <1>4 DEF ListCurrent, Stoppable
<1>12. BusyKept'
  BY <1>1, <1>4, <1>5 DEF Left, Leaves, BusyKept, Telling, Busy
<1>13. LaunchKept'
  BY <1>1, <1>4, <1>5 DEF Left, Leaves, LaunchKept
<1>14. StopKept'
  BY <1>1, <1>4, <1>5 DEF Left, Leaves, StopKept, Telling
<1>15. AskedIsBacked'
  BY <1>1, <1>4, <1>5 DEF Left, Leaves, AskedIsBacked
<1>16. DisplaysBacked'
  BY <1>1, <1>2, <1>3, <1>5, <1>6, <1>7 DEF Left, Leaves, DisplaySlots, DisplayRows, DisplaysBacked
<1> QED
  BY <1>8, <1>9, <1>10, <1>11, <1>12, <1>13, <1>14, <1>15, <1>16

\* What the maintenance finds of the program.
LEMMA MaintenanceFacts ==
    ASSUME PanelInv, Maintenance
    PROVE  /\ \/ program' = program /\ jobs' = jobs /\ shown' = shown
              \/ /\ program # "none" /\ program' = "none" /\ shown' = shown
                 /\ jobs' \in {jobs \cup {"exited"}, jobs \cup {"stopped"}}
              \/ /\ program = "stopping" /\ program' = "offered" /\ jobs' = jobs
                 /\ shown' \in {NoState} \cup Shown /\ (shown' = NoState <=> shown = NoState)
           /\ slot' \in DisplaySlots /\ slot'.pending = slot.pending /\ slot'.lost = slot.lost
           /\ slot'.window \in {0, slot.window} /\ row' = Synced(slot'.window)
           /\ list' \in [active : BOOLEAN, stoppable : {"no", "active", "pending"}]
           /\ list'.stoppable = Stoppable(op, program')
<1>1. PICK d \in DisplayReaps, r \in Reaps :
         /\ slot' = d.slot /\ row' = Synced(d.slot.window)
         /\ IF d.program = program THEN program' = r.program /\ jobs' = r.jobs /\ shown' = r.shown
                           ELSE program' = d.program /\ jobs' = d.jobs /\ UNCHANGED shown
         /\ list' = [active |-> program' # "none",
                     stoppable |-> IF (program' = "none") # (program = "none") THEN Stoppable(op, program')
                                   ELSE list.stoppable]
  BY DEF Maintenance
<1>2. /\ d.slot \in DisplaySlots /\ d.slot.pending = slot.pending /\ d.slot.lost = slot.lost
      /\ d.slot.window \in {0, slot.window}
      /\ \/ d.program = program /\ d.jobs = jobs
         \/ program # "none" /\ d.program = "none" /\ d.jobs = jobs \cup {"stopped"}
  BY DisplayReapsFacts
<1>3. \/ r.program = program /\ r.jobs = jobs /\ r.shown = shown
      \/ /\ program # "none" /\ r.program = "none" /\ r.shown = shown
         /\ r.jobs \in {jobs \cup {"exited"}, jobs \cup {"stopped"}}
      \/ /\ program = "stopping" /\ r.program = "offered" /\ r.jobs = jobs
         /\ r.shown \in {NoState} \cup Shown /\ (r.shown = NoState <=> shown = NoState)
  BY ReapsFacts
<1>4. /\ \/ program' = program /\ jobs' = jobs /\ shown' = shown
         \/ /\ program # "none" /\ program' = "none" /\ shown' = shown
            /\ jobs' \in {jobs \cup {"exited"}, jobs \cup {"stopped"}}
         \/ /\ program = "stopping" /\ program' = "offered" /\ jobs' = jobs
            /\ shown' \in {NoState} \cup Shown /\ (shown' = NoState <=> shown = NoState)
  BY <1>1, <1>2, <1>3
<1>5. list.stoppable = Stoppable(op, program) /\ list.stoppable \in {"no", "active", "pending"}
  BY DEF Maintenance, PanelInv, PanelTypes, ListCurrent
<1> DEFINE a == program' # "none"
           st == IF (program' = "none") # (program = "none") THEN Stoppable(op, program') ELSE list.stoppable
<1>6. st = Stoppable(op, program') /\ st \in {"no", "active", "pending"} /\ a \in BOOLEAN
  BY <1>5 DEF Stoppable
<1>7. list' = [active |-> a, stoppable |-> st]
  BY <1>1
<1> HIDE DEF a, st
<1>8. /\ list' \in [active : BOOLEAN, stoppable : {"no", "active", "pending"}]
      /\ list'.stoppable = Stoppable(op, program')
  BY <1>6, <1>7
<1> QED
  BY <1>1, <1>2, <1>4, <1>8


\* What the maintenance takes away has a cleanup, and a new list.
LEMMA MaintenanceKept ==
    ASSUME PanelInv, Maintenance
    PROVE  PanelInv'
<1> USE DEF PanelInv
<1>1. Left("nothing")
  BY NothingTaken DEF Maintenance, Quiet
<1>2. slot \in DisplaySlots /\ row \in DisplayRows /\ clicks \in [all : Nat, windows : Nat]
  BY DEF PanelTypes, DisplaySlots, DisplayRows
<1>3. /\ clicks.windows \in Nat /\ slot.lost \in Nat /\ row.window <= clicks.windows /\ slot.window <= clicks.windows
      /\ row.window \in Nat /\ slot.window \in Nat
      /\ slot.window # 0 => row.window = slot.window
  BY <1>2 DEF Counted, DisplaySlots, DisplayRows
<1>4. /\ batch' = batch /\ batch = "none"
      /\ UNCHANGED <<target, saved, task, asked, op, inbox, clicks, known>>
  BY DEF Maintenance
<1>5. /\ \/ program' = program /\ jobs' = jobs /\ shown' = shown
         \/ /\ program # "none" /\ program' = "none" /\ shown' = shown
            /\ jobs' \in {jobs \cup {"exited"}, jobs \cup {"stopped"}}
         \/ /\ program = "stopping" /\ program' = "offered" /\ jobs' = jobs
            /\ shown' \in {NoState} \cup Shown /\ (shown' = NoState <=> shown = NoState)
      /\ slot' \in DisplaySlots /\ slot'.pending = slot.pending /\ slot'.lost = slot.lost
      /\ slot'.window \in {0, slot.window} /\ row' = Synced(slot'.window)
      /\ list' \in [active : BOOLEAN, stoppable : {"no", "active", "pending"}]
      /\ list'.stoppable = Stoppable(op, program')
  BY MaintenanceFacts
<1>6. /\ row' \in DisplayRows /\ row'.window = slot'.window /\ slot'.window \in Nat
      /\ (row'.closing => row.closing) /\ (row'.pending => row.pending)
  BY <1>2, <1>3, <1>5, SyncedFacts
<1>7. jobs' \subseteq Jobs /\ program' \in {"none", "running", "stopping", "offered"} /\ shown' \in {NoState} \cup Shown
  BY <1>5 DEF PanelTypes, Jobs
<1>8. PanelTypes'
  BY <1>1, <1>2, <1>3, <1>4, <1>5, <1>6, <1>7 DEF PanelTypes, Left, Leaves, DisplaySlots, DisplayRows
<1>9. Counted'
  BY <1>1, <1>2, <1>3, <1>4, <1>5, <1>6, <1>7, DisplayCounted DEF Left, DisplaySlots, DisplayRows
<1>10. LaunchAlone'
  BY <1>4, <1>5, <1>7 DEF LaunchAlone
<1>11. ListCurrent'
  BY <1>4, <1>5, <1>7 DEF ListCurrent, Stoppable
<1>12. BusyKept'
  BY <1>1, <1>4, <1>5, <1>7 DEF Left, Leaves, BusyKept, Telling, Busy
<1>13. LaunchKept'
  BY <1>1, <1>4, <1>5, <1>7 DEF Left, Leaves, LaunchKept
<1>14. StopKept'
  BY <1>1, <1>4, <1>5, <1>7 DEF Left, Leaves, StopKept, Telling
<1>15. AskedIsBacked'
  BY <1>1, <1>4, <1>5, <1>7 DEF Left, Leaves, AskedIsBacked
<1>16. DisplaysBacked'
  BY <1>1, <1>2, <1>3, <1>4, <1>5, <1>6 DEF Left, Leaves, DisplaySlots, DisplayRows, DisplaysBacked
<1> QED
  BY <1>8, <1>9, <1>10, <1>11, <1>12, <1>13, <1>14, <1>15, <1>16

-----------------------------------------------------------------------------
LEMMA PanelInitial == PanelSessionsInit => PanelInv
<1> SUFFICES ASSUME PanelSessionsInit PROVE PanelInv
  OBVIOUS
<1>1. /\ shown = NoState /\ op = NoOp /\ program = "none" /\ jobs = {} /\ inbox = <<>> /\ batch = "none"
      /\ task["launch"] = "none" /\ task["stop"] = "none" /\ ~asked
      /\ list.stoppable = "no" /\ ~row.pending /\ ~row.closing /\ row.window = 0
      /\ ~slot.pending /\ slot.window = 0 /\ slot.lost = 0 /\ clicks.all = 0 /\ clicks.windows = 0
      /\ Len(inbox) = 0
  BY DEF PanelSessionsInit
<1>2. PanelTypes
  <2>1. slot \in [pending : BOOLEAN, window : Nat, jobs : SUBSET {"told", "silent"}, lost : Nat]
    BY DEF PanelSessionsInit
  <2>2. /\ row \in [pending : BOOLEAN, closing : BOOLEAN, window : Nat]
        /\ clicks \in [all : Nat, windows : Nat]
    BY DEF PanelSessionsInit
  <2>3. /\ task \in [{"launch", "stop"} -> {"none", "active", "done"}]
        /\ list \in [active : BOOLEAN, stoppable : {"no", "active", "pending"}]
    BY DEF PanelSessionsInit
  <2>4. inbox \in Seq(PanelMessages)
    BY <1>1
  <2> QED
    BY <2>1, <2>2, <2>3, <2>4 DEF PanelSessionsInit, PanelTypes
<1>3. Counted
  BY <1>1, PanelSessionsAssumption DEF Counted, Attempted
<1>4. LaunchAlone /\ ListCurrent /\ BusyKept /\ LaunchKept /\ StopKept /\ AskedIsBacked /\ DisplaysBacked
  BY <1>1 DEF LaunchAlone, ListCurrent, Stoppable, BusyKept, LaunchKept, StopKept, AskedIsBacked,
              DisplaysBacked
<1> QED
  BY <1>2, <1>3, <1>4 DEF PanelInv

LEMMA PanelStuttered ==
    ASSUME PanelInv, UNCHANGED panelVars PROVE PanelInv'
<1> USE DEF panelVars
<1>1. PanelTypes'
  BY DEF PanelInv, PanelTypes
<1>2. Counted' /\ LaunchAlone' /\ ListCurrent'
  BY DEF PanelInv, Counted, Attempted, LaunchAlone, ListCurrent, Stoppable
<1>3. BusyKept' /\ LaunchKept' /\ StopKept'
  BY DEF PanelInv, BusyKept, LaunchKept, StopKept, Telling, Under
<1>4. AskedIsBacked' /\ DisplaysBacked'
  BY DEF PanelInv, AskedIsBacked, DisplaysBacked, Under
<1> QED
  BY <1>1, <1>2, <1>3, <1>4 DEF PanelInv

LEMMA PanelStep == PanelInv /\ [PanelSessionsNext]_panelVars => PanelInv'
<1> SUFFICES ASSUME PanelInv, [PanelSessionsNext]_panelVars PROVE PanelInv'
  OBVIOUS
<1>1. CASE Clicks
  BY <1>1, ClicksKept
<1>2. CASE Check \/ Start \/ ResumeContainerSession \/ Checked
  BY <1>2, CheckKept, StartKept, ResumeKept, CheckedKept
<1>3. CASE DisplayStarted \/ DisplayFailed \/ Progress \/ LaunchFinished
  BY <1>3, DisplayStartedKept, DisplayFailedKept, ProgressKept, LaunchFinishedKept
<1>4. CASE Stop \/ ForceStop \/ OpenTerminal
  BY <1>4, StopAskedKept, ForceAgainKept, ForceStopKept, TerminalKept
<1>5. CASE \/ CreateManagedDisplay \/ ManagedDisplayStarted \/ ManagedDisplayFailed
           \/ LostDisplayStarted \/ CloseManagedDisplay \/ SlotJobEnds
  BY <1>5, CreateKept, StartedDisplayKept, FailedDisplayKept, LostDisplayKept, CloseKept, SlotJobKept
<1>6. CASE JobFailed \/ \E job \in jobs : JobDone(job)
  BY <1>6, JobFailedKept, JobDoneKept
<1>7. CASE BeginBatch \/ EndBatch \/ Maintenance
  BY <1>7, BeginBatchKept, EndBatchKept, MaintenanceKept
<1>8. CASE UNCHANGED panelVars
  BY <1>8, PanelStuttered
<1> QED
  BY <1>1, <1>2, <1>3, <1>4, <1>5, <1>6, <1>7, <1>8 DEF PanelSessionsNext, Handlers

\* Nothing counts further than the clicks.
LEMMA FourParts ==
    ASSUME NEW a \in Nat, NEW b \in Nat, NEW c \in Nat, NEW d \in Nat, NEW m \in Nat, a + b + c + d <= m
    PROVE  a <= m /\ b <= m
OBVIOUS

LEMMA PanelCounts == PanelTypes /\ Counted => PanelSessionsTypeOK
<1> SUFFICES ASSUME PanelTypes, Counted PROVE PanelSessionsTypeOK
  OBVIOUS
<1>1. /\ clicks.all \in Nat /\ clicks.windows \in Nat /\ slot.lost \in Nat /\ Len(inbox) \in Nat
      /\ slot.window \in Nat /\ row.window \in Nat
  BY DEF PanelTypes
<1>2. PICK p \in {0, 1} : p = IF slot.pending THEN 1 ELSE 0
  OBVIOUS
<1>3. clicks.windows + slot.lost + p + Len(inbox) <= clicks.all /\ clicks.all <= MaxClicks
  BY <1>2 DEF Counted, Attempted
<1>4. slot.lost <= MaxClicks /\ clicks.windows <= MaxClicks
  <2>1. clicks.windows <= clicks.all /\ slot.lost <= clicks.all
    BY <1>1, <1>2, <1>3, FourParts
  <2> QED
    BY <1>1, <1>3, <2>1, PanelSessionsAssumption
<1>5. slot.lost \in 0 .. MaxClicks /\ slot.window \in 0 .. MaxClicks /\ row.window \in 0 .. MaxClicks
  BY <1>1, <1>4, PanelSessionsAssumption DEF Counted
<1>6. slot.jobs \subseteq {"told", "silent"} /\ slot.pending \in BOOLEAN
  BY DEF PanelTypes
<1>7. row.pending \in BOOLEAN /\ row.closing \in BOOLEAN /\ Len(inbox) <= MaxInbox
  BY DEF PanelTypes, Counted
<1> QED
  BY <1>5, <1>6, <1>7 DEF PanelTypes, PanelSessionsTypeOK, Jobs

(***************************************************************************)
(* Whatever the panel shows as busy, under way or ending has something     *)
(* behind it that will end it: an operation, a program, a cleanup or a     *)
(* message of container_mode.rs under way; and the list of profiles to     *)
(* stop is the one sync_stoppable_profiles would make whenever a click can *)
(* fall.  For any number of clicks and messages.                           *)
(***************************************************************************)
THEOREM PanelShowsWhatEnds == PanelSessionsSpec => []PanelInvariant
<1>1. PanelInv => PanelInvariant
  <2> SUFFICES ASSUME PanelInv PROVE PanelInvariant
    OBVIOUS
  <2>1. PanelSessionsTypeOK
    BY PanelCounts DEF PanelInv
  <2>2. BusyIsBacked
    BY DEF PanelInv, BusyKept, BusyIsBacked, Telling
  <2>3. TasksAreBacked
    BY DEF PanelInv, LaunchKept, StopKept, TasksAreBacked, Telling
  <2>4. StoppableCurrent
    BY DEF PanelInv, ListCurrent, StoppableCurrent
  <2> QED
    BY <2>1, <2>2, <2>3, <2>4 DEF PanelInv, PanelInvariant
<1> QED
  BY PanelInitial, PanelStep, <1>1, PTL DEF PanelSessionsSpec
=============================================================================
