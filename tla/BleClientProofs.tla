--------------------------- MODULE BleClientProofs ---------------------------
(***************************************************************************)
(* For every set of clients and every choice of faults: BleClient is type  *)
(* correct, its inductive invariant holds, the slot is never lost and no   *)
(* two running clients use the radio at once.                              *)
(***************************************************************************)
EXTENDS BleClient, TLAPS

-----------------------------------------------------------------------------
(* The coordinator's line of waiters *)

NoRepeat(s) == \A i, j \in DOMAIN s : s[i] = s[j] => i = j

\* push_back() in request(): the new owner joins, nobody else changes.
LEMMA AppendLine ==
    ASSUME NEW S, NEW s \in Seq(S), NEW c \in S
    PROVE  /\ Append(s, c) \in Seq(S)
           /\ \A d : Within(Append(s, c), d) <=> Within(s, d) \/ d = c
           /\ NoRepeat(s) /\ ~Within(s, c) => NoRepeat(Append(s, c))
<1> DEFINE t == Append(s, c)
<1>1. t \in Seq(S) /\ DOMAIN t = 1..(Len(s) + 1) /\ DOMAIN s = 1..Len(s)
  OBVIOUS
<1>2. t[Len(s) + 1] = c /\ \A i \in 1..Len(s) : t[i] = s[i]
  OBVIOUS
<1>3. Len(s) \in Nat
  OBVIOUS
<1> HIDE DEF t
<1>4. \A d : Within(t, d) => Within(s, d) \/ d = c
  BY <1>1, <1>2, <1>3 DEF Within
<1>5. \A d : Within(s, d) \/ d = c => Within(t, d)
  BY <1>1, <1>2, <1>3 DEF Within
<1>6. NoRepeat(s) /\ ~Within(s, c) => NoRepeat(t)
  BY <1>1, <1>2, <1>3 DEF Within, NoRepeat
<1>7. QED  BY <1>1, <1>4, <1>5, <1>6 DEF t

\* pop_front() in release(): the head leaves, nobody else changes.
LEMMA TailLine ==
    ASSUME NEW S, NEW s \in Seq(S), s # <<>>, NoRepeat(s)
    PROVE  /\ Tail(s) \in Seq(S)
           /\ Head(s) \in S
           /\ Within(s, Head(s))
           /\ \A d : Within(Tail(s), d) <=> Within(s, d) /\ d # Head(s)
           /\ NoRepeat(Tail(s))
<1> DEFINE t == Tail(s)
<1>1. /\ t \in Seq(S) /\ DOMAIN t = 1..(Len(s) - 1)
      /\ DOMAIN s = 1..Len(s) /\ Len(s) \in Nat \ {0}
  OBVIOUS
<1>2. Head(s) = s[1] /\ \A i \in 1..(Len(s) - 1) : t[i] = s[i + 1]
  OBVIOUS
<1>3. Head(s) \in S /\ Within(s, Head(s))
  BY <1>1, <1>2 DEF Within
<1> HIDE DEF t
<1>4. \A d : Within(t, d) => Within(s, d) /\ d # Head(s)
  BY <1>1, <1>2 DEF Within, NoRepeat
<1>5. ASSUME NEW d, Within(s, d), d # Head(s)
      PROVE  Within(t, d)
  <2>1. PICK i \in 1..Len(s) : s[i] = d
    BY <1>1, <1>5 DEF Within
  <2>2. i # 1
    BY <1>2, <1>5, <2>1
  <2>3. i - 1 \in 1..(Len(s) - 1) /\ i = (i - 1) + 1
    BY <1>1, <2>1, <2>2
  <2>4. t[i - 1] = d
    BY <1>2, <2>1, <2>3
  <2>5. QED  BY <1>1, <2>3, <2>4 DEF Within
<1>6. ASSUME NEW i \in DOMAIN t, NEW j \in DOMAIN t, t[i] = t[j]
      PROVE  i = j
  <2>1. /\ i \in 1..(Len(s) - 1) /\ i + 1 \in 1..Len(s)
        /\ j \in 1..(Len(s) - 1) /\ j + 1 \in 1..Len(s)
    BY <1>1, <1>6
  <2>2. s[i + 1] = s[j + 1]
    BY <1>2, <1>6, <2>1
  <2>3. i + 1 = j + 1
    BY <1>1, <2>1, <2>2 DEF NoRepeat
  <2>4. QED  BY <2>1, <2>3
<1>7. QED  BY <1>1, <1>3, <1>4, <1>5, <1>6 DEF t, NoRepeat

\* erase() in release(): a waiter leaves, nobody else changes.
LEMMA EraseLine ==
    ASSUME NEW S, NEW s \in Seq(S), NEW c, NoRepeat(s)
    PROVE  /\ Erase(s, c) \in Seq(S)
           /\ \A d : Within(Erase(s, c), d) <=> Within(s, d) /\ d # c
           /\ NoRepeat(Erase(s, c))
<1>1. CASE ~Within(s, c)
  BY <1>1 DEF Erase, Within
<1>2. CASE Within(s, c)
  <2> DEFINE k == CHOOSE i \in DOMAIN s : s[i] = c
             e == [i \in 1..(Len(s) - 1) |-> IF i < k THEN s[i] ELSE s[i + 1]]
  <2>1. k \in 1..Len(s) /\ s[k] = c
    BY <1>2 DEF Within
  <2>2. Erase(s, c) = e
    BY <1>2 DEF Erase
  <2> HIDE DEF k
  <2>3. e \in Seq(S) /\ DOMAIN e = 1..(Len(s) - 1)
    BY <2>1
  <2>4. \A d : Within(e, d) => Within(s, d) /\ d # c
    BY <2>1, <2>3 DEF Within, NoRepeat
  <2>5. ASSUME NEW d, Within(s, d), d # c
        PROVE  Within(e, d)
    <3>1. PICK j \in 1..Len(s) : s[j] = d
      BY <2>5 DEF Within
    <3>2. CASE j < k
      <4>1. j \in 1..(Len(s) - 1) /\ e[j] = d
        BY <2>1, <3>1, <3>2
      <4>2. QED  BY <2>3, <4>1 DEF Within
    <3>3. CASE j > k
      <4>1. j - 1 \in 1..(Len(s) - 1) /\ e[j - 1] = d
        BY <2>1, <3>1, <3>3
      <4>2. QED  BY <2>3, <4>1 DEF Within
    <3>4. QED  BY <2>1, <2>5, <3>1, <3>2, <3>3
  <2>6. NoRepeat(e)
    BY <2>1, <2>3 DEF NoRepeat
  <2>7. QED  BY <2>2, <2>3, <2>4, <2>5, <2>6
<1>3. QED  BY <1>1, <1>2

\* The same without the assumption on repetitions: a line is a line.
LEMMA EraseType ==
    ASSUME NEW S, NEW s \in Seq(S), NEW c
    PROVE  Erase(s, c) \in Seq(S)
BY DEF Erase, Within

-----------------------------------------------------------------------------
(* Type correctness *)

LEMMA InitTypeOK == Init => TypeOK
BY DEF Init, TypeOK, States, PCs

LEMMA NextTypeOK == TypeOK /\ [Next]_vars => TypeOK'
<1> SUFFICES ASSUME TypeOK, [Next]_vars  PROVE TypeOK'
  OBVIOUS
<1> USE DEF TypeOK, States, PCs, Kinds, Update, Signal, Consume, Take, Ready,
            coordVars, radioVars
<1>1. ASSUME NEW c \in Clients, ProbeAdapter(c)  PROVE TypeOK'
  BY <1>1 DEF ProbeAdapter
<1>2. ASSUME NEW c \in Clients, RequestSlot(c)  PROVE TypeOK'
  <2>0. Append(waiters, c) \in Seq(Clients)
    OBVIOUS
  <2>1. waiters' \in Seq(Clients)
    BY <1>2, <2>0 DEF RequestSlot
  <2>2. /\ holder' \in Clients \cup {None}
        /\ grant' \in [Clients -> Clients \cup {None}]
        /\ pc' \in [Clients -> PCs]
    BY <1>2 DEF RequestSlot
  <2>3. QED  BY <1>2, <2>1, <2>2 DEF RequestSlot
<1>3. ASSUME NEW c \in Clients, StartScan(c)  PROVE TypeOK'
  BY <1>3 DEF StartScan
<1>4. ASSUME NEW c \in Clients, Connect(c)  PROVE TypeOK'
  BY <1>4 DEF Connect
<1>5. ASSUME NEW c \in Clients, Subscribed(c)  PROVE TypeOK'
  BY <1>5 DEF Subscribed
<1>6. ASSUME NEW c \in Clients, SubscribeFailed(c)  PROVE TypeOK'
  BY <1>6 DEF SubscribeFailed
<1>7. ASSUME NEW c \in Clients, ServicesThrow(c)  PROVE TypeOK'
  BY <1>7 DEF ServicesThrow
<1>8. ASSUME NEW c \in Clients, ReleaseSlot(c)  PROVE TypeOK'
  <2>1. waiters # <<>> =>
            Tail(waiters) \in Seq(Clients) /\ Head(waiters) \in Clients
    OBVIOUS
  <2>2. Erase(waiters, c) \in Seq(Clients)
    BY EraseType
  <2>3. waiters' \in Seq(Clients)
    BY <1>8, <2>1, <2>2 DEF ReleaseSlot
  <2>4. /\ holder' \in Clients \cup {None}
        /\ grant' \in [Clients -> Clients \cup {None}]
        /\ pc' \in [Clients -> PCs]
    BY <1>8, <2>1 DEF ReleaseSlot
  <2>5. QED  BY <1>8, <2>3, <2>4 DEF ReleaseSlot
<1>9. ASSUME NEW c \in Clients, Settle(c)  PROVE TypeOK'
  BY <1>9 DEF Settle
<1>10. ASSUME NEW c \in Clients, OnStopEvent(c)  PROVE TypeOK'
  BY <1>10 DEF OnStopEvent
<1>11. ASSUME NEW c \in Clients, OnMatch(c)  PROVE TypeOK'
  BY <1>11 DEF OnMatch
<1>12. ASSUME NEW c \in Clients, OnLinkLost(c)  PROVE TypeOK'
  BY <1>12 DEF OnLinkLost
<1>13. ASSUME NEW c \in Clients, OnIdleWork(c)  PROVE TypeOK'
  BY <1>13 DEF OnIdleWork
<1>14. ASSUME NEW c \in Clients, OnSlotEvent(c)  PROVE TypeOK'
  BY <1>14 DEF OnSlotEvent
<1>15. ASSUME NEW c \in Clients, OnTimerExpired(c)  PROVE TypeOK'
  <2>1. timer' \in [Clients -> {"off", "armed", "expired"}]
    BY <1>15 DEF OnTimerExpired
  <2>2. /\ state' \in [Clients -> States]
        /\ pc' \in [Clients -> PCs]
        /\ scanning' \in [Clients -> BOOLEAN]
    BY <1>15 DEF OnTimerExpired
  <2>3. batch' \in [Clients -> SUBSET Kinds]
    BY <1>15 DEF OnTimerExpired
  <2>4. QED  BY <1>15, <2>1, <2>2, <2>3 DEF OnTimerExpired
<1>16. ASSUME NEW c \in Clients, TimerFires(c)  PROVE TypeOK'
  BY <1>16 DEF TimerFires
<1>17. ASSUME NEW c \in Clients, ScanFound(c)  PROVE TypeOK'
  BY <1>17 DEF ScanFound
<1>18. ASSUME NEW c \in Clients, LinkDrops(c)  PROVE TypeOK'
  BY <1>18 DEF LinkDrops
<1>19. ASSUME NEW c \in Clients, WriteThrows(c)  PROVE TypeOK'
  BY <1>19 DEF WriteThrows
<1>20. ASSUME NEW c \in Clients, LateSignal(c)  PROVE TypeOK'
  BY <1>20 DEF LateSignal
<1>21. ASSUME NEW c \in Clients, Stop(c)  PROVE TypeOK'
  BY <1>21 DEF Stop
<1>22. CASE UNCHANGED vars
  BY <1>22 DEF vars
<1>23. QED
  BY <1>1, <1>2, <1>3, <1>4, <1>5, <1>6, <1>7, <1>8, <1>9, <1>10, <1>11, <1>12, <1>13, <1>14, <1>15, <1>16, <1>17, <1>18, <1>19, <1>20, <1>21, <1>22
     DEF Next, ThreadStep, EnvironmentStep, Enter, Handle

\* Every variable keeps its type in every behaviour of the clients and the
\* coordinator.
THEOREM TypeCorrect == Spec => []TypeOK
BY InitTypeOK, NextTypeOK, PTL DEF Spec

-----------------------------------------------------------------------------
(* The inductive invariant *)

LEMMA InitIndInv == Init => IndInv
BY InitTypeOK, NoneAssumption
   DEF Init, IndInv, StageInv, ScanInv, HolderInv, LineInv, GrantInv, BatchInv,
       StopInv, SlotNeverLost, WaitingIsRegistered, GrantUnderWay, Queued,
       Within

LEMMA NextIndInv == IndInv /\ [Next]_vars => IndInv'
<1> SUFFICES ASSUME IndInv, [Next]_vars  PROVE IndInv'
  OBVIOUS
<1>0. TypeOK'
  BY NextTypeOK DEF IndInv
<1> USE NoneAssumption
    DEF IndInv, StageInv, ScanInv, HolderInv, LineInv, GrantInv, BatchInv,
        StopInv, SlotNeverLost, WaitingIsRegistered, GrantUnderWay, Queued,
        TypeOK, States, PCs, Kinds, Update, Signal, Consume, Take, Ready,
        coordVars, radioVars
<1>1. ASSUME NEW c \in Clients, ProbeAdapter(c)  PROVE IndInv'
  <2>10. StageInv'
    BY <1>1 DEF ProbeAdapter
  <2>11. ScanInv'
    BY <1>1 DEF ProbeAdapter
  <2>12. HolderInv'
    BY <1>1 DEF ProbeAdapter
  <2>13. LineInv'
    BY <1>1 DEF ProbeAdapter
  <2>14. GrantInv'
    BY <1>1 DEF ProbeAdapter
  <2>15. BatchInv'
    BY <1>1 DEF ProbeAdapter
  <2>16. StopInv'
    BY <1>1 DEF ProbeAdapter
  <2>17. SlotNeverLost'
    BY <1>1 DEF ProbeAdapter
  <2>18. WaitingIsRegistered'
    BY <1>1 DEF ProbeAdapter
  <2>19. QED  BY <1>0, <2>10, <2>11, <2>12, <2>13, <2>14, <2>15, <2>16, <2>17, <2>18
<1>2. ASSUME NEW c \in Clients, RequestSlot(c)  PROVE IndInv'
  <2>1. pc[c] = "request" /\ holder # c /\ ~Within(waiters, c)
    BY <1>2 DEF RequestSlot
  <2>2. CASE holder = None
    <3>1. holder' = c /\ grant' = Update(grant, c, c) /\ waiters' = waiters
      BY <1>2, <2>2 DEF RequestSlot
    <3>2. \A d \in Clients : /\ grant'[d] = IF d = c THEN c ELSE grant[d]
                             /\ pc'[d] = IF d = c THEN "settle" ELSE pc[d]
      BY <1>2, <3>1 DEF RequestSlot
    <3>10. StageInv'
      BY <1>2, <2>1, <2>2, <3>1, <3>2 DEF RequestSlot
    <3>11. ScanInv'
      BY <1>2, <2>1, <2>2, <3>1, <3>2 DEF RequestSlot
    <3>12. HolderInv'
      BY <1>2, <2>1, <2>2, <3>1, <3>2 DEF RequestSlot
    <3>13. LineInv'
      BY <1>2, <2>1, <2>2, <3>1, <3>2 DEF RequestSlot
    <3>14. GrantInv'
      BY <1>2, <2>1, <2>2, <3>1, <3>2 DEF RequestSlot
    <3>15. BatchInv'
      BY <1>2, <2>1, <2>2, <3>1, <3>2 DEF RequestSlot
    <3>16. StopInv'
      BY <1>2, <2>1, <2>2, <3>1, <3>2 DEF RequestSlot
    <3>17. SlotNeverLost'
      BY <1>2, <2>1, <2>2, <3>1, <3>2 DEF RequestSlot
    <3>18. WaitingIsRegistered'
      BY <1>2, <2>1, <2>2, <3>1, <3>2 DEF RequestSlot
    <3>19. QED  BY <1>0, <3>10, <3>11, <3>12, <3>13, <3>14, <3>15, <3>16, <3>17, <3>18
  <2>3. CASE holder # None
    <3>1. holder' = holder /\ grant' = grant /\ waiters' = Append(waiters, c)
      BY <1>2, <2>1, <2>3 DEF RequestSlot
    <3>0. waiters \in Seq(Clients) /\ NoRepeat(waiters) /\ c \in Clients
      BY DEF NoRepeat
    <3>2. /\ \A d : Within(waiters', d) <=> Within(waiters, d) \/ d = c
          /\ NoRepeat(waiters')
      BY ONLY <2>1, <3>0, <3>1, AppendLine
    <3>3. LineInv'
      BY <1>2, <2>1, <3>1, <3>2 DEF RequestSlot, NoRepeat
    <3>4. \A d \in Clients : pc'[d] = IF d = c THEN "settle" ELSE pc[d]
      BY <1>2 DEF RequestSlot
    <3>10. StageInv'
      BY <1>2, <2>1, <3>1, <3>2, <3>4 DEF RequestSlot
    <3>11. ScanInv'
      BY <1>2, <2>1, <3>1, <3>2, <3>4 DEF RequestSlot
    <3>12. HolderInv'
      BY <1>2, <2>1, <3>1, <3>2, <3>4 DEF RequestSlot
    <3>13. GrantInv'
      BY <1>2, <2>1, <3>1, <3>2, <3>4 DEF RequestSlot
    <3>14. BatchInv'
      BY <1>2, <2>1, <3>1, <3>2, <3>4 DEF RequestSlot
    <3>15. StopInv'
      BY <1>2, <2>1, <3>1, <3>2, <3>4 DEF RequestSlot
    <3>16. SlotNeverLost'
      BY <1>2, <2>1, <3>1, <3>2, <3>4 DEF RequestSlot
    <3>17. WaitingIsRegistered'
      BY <1>2, <2>1, <3>1, <3>2, <3>4 DEF RequestSlot
    <3>18. QED  BY <1>0, <3>3, <3>10, <3>11, <3>12, <3>13, <3>14, <3>15, <3>16, <3>17
  <2>4. QED  BY <2>2, <2>3
<1>3. ASSUME NEW c \in Clients, StartScan(c)  PROVE IndInv'
  BY <1>0, <1>3 DEF StartScan
<1>4. ASSUME NEW c \in Clients, Connect(c)  PROVE IndInv'
  <2>1. CASE link'[c] = "up"
    BY <1>0, <1>4, <2>1 DEF Connect
  <2>2. CASE link'[c] = "none"
    <3>10. StageInv'
      BY <1>4, <2>2 DEF Connect
    <3>11. ScanInv'
      BY <1>4, <2>2 DEF Connect
    <3>12. HolderInv'
      BY <1>4, <2>2 DEF Connect
    <3>13. LineInv'
      BY <1>4, <2>2 DEF Connect
    <3>14. GrantInv'
      BY <1>4, <2>2 DEF Connect
    <3>15. BatchInv'
      BY <1>4, <2>2 DEF Connect
    <3>16. StopInv'
      BY <1>4, <2>2 DEF Connect
    <3>17. SlotNeverLost'
      BY <1>4, <2>2 DEF Connect
    <3>18. WaitingIsRegistered'
      BY <1>4, <2>2 DEF Connect
    <3>19. QED  BY <1>0, <3>10, <3>11, <3>12, <3>13, <3>14, <3>15, <3>16, <3>17, <3>18
  <2>3. QED  BY <1>4, <2>1, <2>2 DEF Connect
<1>5. ASSUME NEW c \in Clients, Subscribed(c)  PROVE IndInv'
  BY <1>0, <1>5 DEF Subscribed
<1>6. ASSUME NEW c \in Clients, SubscribeFailed(c)  PROVE IndInv'
  BY <1>0, <1>6 DEF SubscribeFailed
<1>7. ASSUME NEW c \in Clients, ServicesThrow(c)  PROVE IndInv'
  BY <1>0, <1>7 DEF ServicesThrow
<1>8. ASSUME NEW c \in Clients, ReleaseSlot(c)  PROVE IndInv'
  <2>1. NoRepeat(waiters) /\ pc[c] = "release" /\ state' = state /\ events' = events
    BY <1>8 DEF ReleaseSlot, NoRepeat
  <2>2. CASE holder = c /\ waiters = <<>>
    <3>1. holder' = None /\ waiters' = waiters /\ grant' = grant
      BY <1>8, <2>2 DEF ReleaseSlot
    <3>2. \A d : ~Within(waiters, d)
      BY <2>2 DEF Within
    <3>3. QED  BY <1>0, <1>8, <2>1, <2>2, <3>1, <3>2 DEF ReleaseSlot
  <2>3. CASE holder = c /\ waiters # <<>>
    <3> DEFINE h == Head(waiters)
    <3>1. /\ h \in Clients /\ Within(waiters, h)
          /\ \A d : Within(Tail(waiters), d) <=> Within(waiters, d) /\ d # h
          /\ NoRepeat(Tail(waiters))
      BY <2>1, <2>3, TailLine
    <3>2. holder' = h /\ waiters' = Tail(waiters) /\ grant' = Update(grant, c, h)
      BY <1>8, <2>3 DEF ReleaseSlot
    <3> HIDE DEF h
    <3>3. LineInv'
      BY <1>8, <2>1, <2>3, <3>1, <3>2 DEF ReleaseSlot, NoRepeat
    <3>4. GrantInv'
      BY <1>8, <2>1, <2>3, <3>1, <3>2 DEF ReleaseSlot
    <3>5. HolderInv' /\ SlotNeverLost'
      BY <1>8, <2>1, <2>3, <3>1, <3>2 DEF ReleaseSlot
    <3>6. WaitingIsRegistered'
      BY <1>8, <2>1, <2>3, <3>1, <3>2 DEF ReleaseSlot
    <3>7. QED  BY <1>0, <1>8, <3>3, <3>4, <3>5, <3>6 DEF ReleaseSlot
  <2>4. CASE holder # c
    <3>1. /\ waiters' = Erase(waiters, c)
          /\ holder' = holder /\ grant' = grant
      BY <1>8, <2>4 DEF ReleaseSlot
    <3>2. /\ \A d : Within(waiters', d) <=> Within(waiters, d) /\ d # c
          /\ NoRepeat(waiters')
      BY <2>1, <3>1, EraseLine
    <3>3. LineInv'
      <4>1. holder' = None => waiters' = <<>>
        BY <3>1 DEF Erase, Within
      <4>2. \A d \in Clients : pc'[d] = IF d = c THEN "settle" ELSE pc[d]
        BY <1>8 DEF ReleaseSlot
      <4>3. QED  BY <2>1, <3>1, <3>2, <4>1, <4>2 DEF NoRepeat
    <3>4. \A d \in Clients : pc'[d] = IF d = c THEN "settle" ELSE pc[d]
      BY <1>8 DEF ReleaseSlot
    <3>10. StageInv'
      BY <1>8, <2>1, <2>4, <3>1, <3>2, <3>4 DEF ReleaseSlot
    <3>11. ScanInv'
      BY <1>8, <2>1, <2>4, <3>1, <3>2, <3>4 DEF ReleaseSlot
    <3>12. HolderInv'
      BY <1>8, <2>1, <2>4, <3>1, <3>2, <3>4 DEF ReleaseSlot
    <3>13. GrantInv'
      BY <1>8, <2>1, <2>4, <3>1, <3>2, <3>4 DEF ReleaseSlot
    <3>14. BatchInv'
      BY <1>8, <2>1, <2>4, <3>1, <3>2, <3>4 DEF ReleaseSlot
    <3>15. StopInv'
      BY <1>8, <2>1, <2>4, <3>1, <3>2, <3>4 DEF ReleaseSlot
    <3>16. SlotNeverLost'
      BY <1>8, <2>1, <2>4, <3>1, <3>2, <3>4 DEF ReleaseSlot
    <3>17. WaitingIsRegistered'
      BY <1>8, <2>1, <2>4, <3>1, <3>2, <3>4 DEF ReleaseSlot
    <3>18. QED  BY <1>0, <3>3, <3>10, <3>11, <3>12, <3>13, <3>14, <3>15, <3>16, <3>17
  <2>5. QED  BY <2>2, <2>3, <2>4
<1>9. ASSUME NEW c \in Clients, Settle(c)  PROVE IndInv'
  BY <1>0, <1>9 DEF Settle
<1>10. ASSUME NEW c \in Clients, OnStopEvent(c)  PROVE IndInv'
  BY <1>0, <1>10 DEF OnStopEvent
<1>11. ASSUME NEW c \in Clients, OnMatch(c)  PROVE IndInv'
  BY <1>0, <1>11 DEF OnMatch
<1>12. ASSUME NEW c \in Clients, OnLinkLost(c)  PROVE IndInv'
  BY <1>0, <1>12 DEF OnLinkLost
<1>13. ASSUME NEW c \in Clients, OnIdleWork(c)  PROVE IndInv'
  BY <1>0, <1>13 DEF OnIdleWork
<1>14. ASSUME NEW c \in Clients, OnSlotEvent(c)  PROVE IndInv'
  <2>10. StageInv'
    <3>1. CASE state[c] = "WaitSlot"
      <4>1. \A d \in Clients : /\ state'[d] = IF d = c THEN "Scan" ELSE state[d]
                               /\ pc'[d] = IF d = c THEN "scan" ELSE pc[d]
        BY <1>14, <3>1 DEF OnSlotEvent
      <4>2. QED  BY <4>1
    <3>2. CASE state[c] # "WaitSlot"
      BY <1>14, <3>2 DEF OnSlotEvent
    <3>3. QED  BY <3>1, <3>2
  <2>11. ScanInv'
    BY <1>14 DEF OnSlotEvent
  <2>12. HolderInv'
    BY <1>14 DEF OnSlotEvent
  <2>13. LineInv'
    BY <1>14 DEF OnSlotEvent
  <2>14. GrantInv'
    BY <1>14 DEF OnSlotEvent
  <2>15. BatchInv'
    BY <1>14 DEF OnSlotEvent
  <2>16. StopInv'
    BY <1>14 DEF OnSlotEvent
  <2>17. SlotNeverLost'
    BY <1>14 DEF OnSlotEvent
  <2>18. WaitingIsRegistered'
    BY <1>14 DEF OnSlotEvent
  <2>19. QED  BY <1>0, <2>10, <2>11, <2>12, <2>13, <2>14, <2>15, <2>16, <2>17, <2>18
<1>15. ASSUME NEW c \in Clients, OnTimerExpired(c)  PROVE IndInv'
  <2>10. StageInv'
    BY <1>15 DEF OnTimerExpired
  <2>11. ScanInv'
    BY <1>15 DEF OnTimerExpired
  <2>12. HolderInv'
    BY <1>15 DEF OnTimerExpired
  <2>13. LineInv'
    BY <1>15 DEF OnTimerExpired
  <2>14. GrantInv'
    BY <1>15 DEF OnTimerExpired
  <2>15. BatchInv'
    BY <1>15 DEF OnTimerExpired
  <2>16. StopInv'
    BY <1>15 DEF OnTimerExpired
  <2>17. SlotNeverLost'
    BY <1>15 DEF OnTimerExpired
  <2>18. WaitingIsRegistered'
    BY <1>15 DEF OnTimerExpired
  <2>19. QED  BY <1>0, <2>10, <2>11, <2>12, <2>13, <2>14, <2>15, <2>16, <2>17, <2>18
<1>16. ASSUME NEW c \in Clients, TimerFires(c)  PROVE IndInv'
  BY <1>0, <1>16 DEF TimerFires
<1>17. ASSUME NEW c \in Clients, ScanFound(c)  PROVE IndInv'
  BY <1>0, <1>17 DEF ScanFound
<1>18. ASSUME NEW c \in Clients, LinkDrops(c)  PROVE IndInv'
  BY <1>0, <1>18 DEF LinkDrops
<1>19. ASSUME NEW c \in Clients, WriteThrows(c)  PROVE IndInv'
  BY <1>0, <1>19 DEF WriteThrows
<1>20. ASSUME NEW c \in Clients, LateSignal(c)  PROVE IndInv'
  BY <1>0, <1>20 DEF LateSignal
<1>21. ASSUME NEW c \in Clients, Stop(c)  PROVE IndInv'
  BY <1>0, <1>21 DEF Stop
<1>22. CASE UNCHANGED vars
  BY <1>0, <1>22 DEF vars
<1>23. QED
  BY <1>1, <1>2, <1>3, <1>4, <1>5, <1>6, <1>7, <1>8, <1>9, <1>10, <1>11, <1>12, <1>13, <1>14, <1>15, <1>16, <1>17, <1>18, <1>19, <1>20, <1>21, <1>22
     DEF Next, ThreadStep, EnvironmentStep, Enter, Handle

\* The inductive invariant holds in every behaviour of the clients and the
\* coordinator.
LEMMA Invariance == Spec => []IndInv
BY InitIndInv, NextIndInv, PTL DEF Spec

-----------------------------------------------------------------------------
(* What follows from it *)

\* The slot is never lost between release() handing it over, the grant
\* callback that runs after the mutex is free, and on_slot_event(): its holder
\* has the grant on the way, uses the slot, or is giving it back.
THEOREM SlotSafe == Spec => []SlotNeverLost
BY Invariance, PTL DEF IndInv

\* The slot passes from a client only by its own release() and then to the
\* oldest waiter; a free slot is taken only when nobody waits.
THEOREM Fifo == Spec => FifoHandover
<1> DEFINE Served == \A c \in Clients : holder # c /\ holder' = c =>
                         \/ holder = None /\ waiters = <<>>
                         \/ waiters # <<>> /\ c = Head(waiters)
<1>1. IndInv /\ [Next]_vars => [Served]_vars
  <2> SUFFICES ASSUME IndInv, Next PROVE Served
    OBVIOUS
  <2>1. ASSUME NEW c \in Clients, RequestSlot(c) PROVE Served
    BY <2>1, NoneAssumption DEF RequestSlot, IndInv, LineInv
  <2>2. ASSUME NEW c \in Clients, ReleaseSlot(c) PROVE Served
    BY <2>2, NoneAssumption DEF ReleaseSlot
  <2>3. ASSUME NEW c \in Clients, ThreadStep(c) \/ EnvironmentStep(c),
               ~RequestSlot(c), ~ReleaseSlot(c)
        PROVE  Served
    <3>1. holder' = holder
      BY <2>3 DEF ThreadStep, EnvironmentStep, Enter, Handle, coordVars,
         ProbeAdapter, StartScan, Connect, Subscribed, SubscribeFailed,
         ServicesThrow, Settle, OnStopEvent, OnMatch, OnLinkLost,
         OnIdleWork, OnSlotEvent, OnTimerExpired, TimerFires, ScanFound,
         LinkDrops, WriteThrows, LateSignal, Stop
    <3>2. QED  BY <3>1
  <2>4. QED  BY <2>1, <2>2, <2>3 DEF Next
<1>2. QED  BY <1>1, Invariance, PTL DEF Spec, FifoHandover

\* Nobody waits without the coordinator knowing: whoever is past request() in
\* WaitSlot is the holder or in waiters_, never both.
THEOREM WaitersRegistered == Spec => []WaitingIsRegistered
BY Invariance, PTL DEF IndInv

\* Using the radio takes the slot.
LEMMA ActiveHolds ==
    IndInv => \A c \in Clients :
                  Active(c) /\ state[c] # "Stopping" => holder = c
BY DEF IndInv, StageInv, ScanInv, HolderInv, Active

\* Whatever faults occur, no two clients that have not been stopped scan or
\* connect at once.
THEOREM RunningExclusion == Spec => []RunningRadioExclusive
<1>1. IndInv => RunningRadioExclusive
  BY ActiveHolds DEF RunningRadioExclusive
<1>2. QED  BY <1>1, Invariance, PTL

\* As long as no client is stopped, no two clients scan or connect at once.
THEOREM Exclusion == ASSUME "stop" \notin Faults PROVE Spec => []RadioExclusive
<1>1. IndInv => RadioExclusive
  BY ActiveHolds DEF RadioExclusive, IndInv, StopInv
<1>2. QED  BY <1>1, Invariance, PTL

-----------------------------------------------------------------------------
(* What a client tells, its time-outs and its lost links *)

\* A link does not drop between connect() and enter(Online) draining
\* work_event_ unless that fault is injected; later losses leave a signal.
LossInv == "drop" \notin Faults =>
    /\ \A c \in Clients : state[c] = "Online" /\ pc[c] # "loop" => link[c] # "down"
    /\ LossIsNoticed

LinkInv == ToldAgrees /\ ScanHasTimeout /\ LossInv

LEMMA InitLinkInv == Init => LinkInv
BY DEF Init, LinkInv, ToldAgrees, ScanHasTimeout, LossInv, LossIsNoticed

LEMMA NextLinkInv == IndInv /\ LinkInv /\ [Next]_vars => LinkInv'
<1> SUFFICES ASSUME IndInv, LinkInv, [Next]_vars  PROVE LinkInv'
  OBVIOUS
<1> USE DEF IndInv, TypeOK, StageInv, LinkInv, ToldAgrees, ScanHasTimeout,
            LossInv, LossIsNoticed, Update, Signal, Consume, Take, Ready,
            coordVars, radioVars
<1>1. ASSUME NEW c \in Clients, ProbeAdapter(c)  PROVE LinkInv'
  <2>1. ToldAgrees'
    BY <1>1 DEF ProbeAdapter
  <2>2. ScanHasTimeout'
    BY <1>1 DEF ProbeAdapter
  <2>3. LossInv'
    <3>1. /\ state'[c] # "Online"
          /\ \A d \in Clients \ {c} : /\ state'[d] = state[d] /\ pc'[d] = pc[d]
                                     /\ link'[d] = link[d] /\ events'[d] = events[d]
      BY <1>1 DEF ProbeAdapter
    <3>2. QED  BY <3>1
  <2>4. QED  BY <2>1, <2>2, <2>3
<1>2. ASSUME NEW c \in Clients, RequestSlot(c)  PROVE LinkInv'
  BY <1>2 DEF RequestSlot
<1>3. ASSUME NEW c \in Clients, StartScan(c)  PROVE LinkInv'
  <2>1. ToldAgrees'
    BY <1>3 DEF StartScan
  <2>2. ScanHasTimeout'
    BY <1>3 DEF StartScan
  <2>3. LossInv'
    <3>1. /\ state'[c] # "Online"
          /\ \A d \in Clients \ {c} : /\ state'[d] = state[d] /\ pc'[d] = pc[d]
                                     /\ link'[d] = link[d] /\ events'[d] = events[d]
      BY <1>3 DEF StartScan
    <3>2. QED  BY <3>1
  <2>4. QED  BY <2>1, <2>2, <2>3
<1>4. ASSUME NEW c \in Clients, Connect(c)  PROVE LinkInv'
  <2>1. ToldAgrees'
    BY <1>4 DEF Connect
  <2>2. ScanHasTimeout'
    BY <1>4 DEF Connect
  <2>3. LossInv'
    <3>1. /\ state'[c] # "Online"
          /\ \A d \in Clients \ {c} : /\ state'[d] = state[d] /\ pc'[d] = pc[d]
                                     /\ link'[d] = link[d] /\ events'[d] = events[d]
      BY <1>4 DEF Connect
    <3>2. QED  BY <3>1
  <2>4. QED  BY <2>1, <2>2, <2>3
<1>5. ASSUME NEW c \in Clients, Subscribed(c)  PROVE LinkInv'
  BY <1>5 DEF Subscribed
<1>6. ASSUME NEW c \in Clients, SubscribeFailed(c)  PROVE LinkInv'
  BY <1>6 DEF SubscribeFailed
<1>7. ASSUME NEW c \in Clients, ServicesThrow(c)  PROVE LinkInv'
  BY <1>7 DEF ServicesThrow
<1>8. ASSUME NEW c \in Clients, ReleaseSlot(c)  PROVE LinkInv'
  BY <1>8 DEF ReleaseSlot
<1>9. ASSUME NEW c \in Clients, Settle(c)  PROVE LinkInv'
  BY <1>9 DEF Settle
<1>10. ASSUME NEW c \in Clients, OnStopEvent(c)  PROVE LinkInv'
  BY <1>10 DEF OnStopEvent
<1>11. ASSUME NEW c \in Clients, OnMatch(c)  PROVE LinkInv'
  BY <1>11 DEF OnMatch
<1>12. ASSUME NEW c \in Clients, OnLinkLost(c)  PROVE LinkInv'
  BY <1>12 DEF OnLinkLost
<1>13. ASSUME NEW c \in Clients, OnIdleWork(c)  PROVE LinkInv'
  BY <1>13 DEF OnIdleWork
<1>14. ASSUME NEW c \in Clients, OnSlotEvent(c)  PROVE LinkInv'
  <2>1. ToldAgrees'
    <3>1. /\ told' = told
          /\ \A d \in Clients : \/ state'[d] = state[d]
                                \/ state[d] = "WaitSlot" /\ state'[d] = "Scan"
      BY <1>14 DEF OnSlotEvent
    <3>2. QED  BY <3>1
  <2>2. ScanHasTimeout'
    BY <1>14 DEF OnSlotEvent
  <2>3. LossInv'
    BY <1>14 DEF OnSlotEvent
  <2>4. QED  BY <2>1, <2>2, <2>3
<1>15. ASSUME NEW c \in Clients, OnTimerExpired(c)  PROVE LinkInv'
  <2>1. ToldAgrees'
    BY <1>15 DEF OnTimerExpired
  <2>2. ScanHasTimeout'
    BY <1>15 DEF OnTimerExpired
  <2>3. LossInv'
    BY <1>15 DEF OnTimerExpired
  <2>4. QED  BY <2>1, <2>2, <2>3
<1>16. ASSUME NEW c \in Clients, TimerFires(c)  PROVE LinkInv'
  BY <1>16 DEF TimerFires
<1>17. ASSUME NEW c \in Clients, ScanFound(c)  PROVE LinkInv'
  BY <1>17 DEF ScanFound
<1>18. ASSUME NEW c \in Clients, LinkDrops(c)  PROVE LinkInv'
  BY <1>18 DEF LinkDrops
<1>19. ASSUME NEW c \in Clients, WriteThrows(c)  PROVE LinkInv'
  BY <1>19 DEF WriteThrows
<1>20. ASSUME NEW c \in Clients, LateSignal(c)  PROVE LinkInv'
  BY <1>20 DEF LateSignal
<1>21. ASSUME NEW c \in Clients, Stop(c)  PROVE LinkInv'
  BY <1>21 DEF Stop
<1>22. CASE UNCHANGED vars
  BY <1>22 DEF vars
<1>23. QED
  BY <1>1, <1>2, <1>3, <1>4, <1>5, <1>6, <1>7, <1>8, <1>9, <1>10, <1>11, <1>12, <1>13, <1>14, <1>15, <1>16, <1>17, <1>18, <1>19, <1>20, <1>21, <1>22
     DEF Next, ThreadStep, EnvironmentStep, Enter, Handle

LEMMA LinkInvariance == Spec => []LinkInv
BY InitLinkInv, NextLinkInv, Invariance, PTL DEF Spec

\* The bridge has been told Connected exactly while the client is in Online,
\* whatever the faults: no path pushes an event twice or forgets one.
THEOREM ToldCorrect == Spec => []ToldAgrees
BY LinkInvariance, PTL DEF LinkInv

\* No discovery runs without its time-out, not even when the timer's expiry was
\* fetched together with other events and is handled after them.
THEOREM ScanTimed == Spec => []ScanHasTimeout
BY LinkInvariance, PTL DEF LinkInv

\* If a link never drops before enter(Online) has drained work_event_, a client
\* waiting in Online with a lost link has the signal pending.
THEOREM LossNoticed == ASSUME "drop" \notin Faults PROVE Spec => []LossIsNoticed
<1>1. LinkInv => LossIsNoticed
  BY DEF LinkInv, LossInv
<1>2. QED  BY <1>1, LinkInvariance, PTL

-----------------------------------------------------------------------------
(* Refinement *)

ActiveClients == {c \in Clients : Active(c)}

LEMMA InitRefines == Init => Slot!SlotInit
BY DEF Init, Slot!SlotInit, Active

\* A step that moves neither the slot nor the radio is a stutter of the slot.
LEMMA NextRefines ==
    ASSUME "stop" \notin Faults, IndInv, [Next]_vars
    PROVE  [Slot!SlotNext]_Slot!slotVars
<1> DEFINE Stutter == /\ UNCHANGED <<holder, waiters>>
                      /\ ActiveClients' = ActiveClients
<1> USE DEF Slot!SlotNext, Slot!slotVars, ActiveClients, Active, Update, Take,
            Signal, Consume, IndInv, TypeOK, StopInv, coordVars, radioVars
<1>1. ASSUME NEW c \in Clients, ProbeAdapter(c)
      PROVE  Slot!SlotNext \/ UNCHANGED Slot!slotVars
  BY <1>1 DEF ProbeAdapter, StageInv, ScanInv, HolderInv
<1>2. ASSUME NEW c \in Clients, RequestSlot(c)
      PROVE  Slot!SlotNext \/ UNCHANGED Slot!slotVars
  BY <1>2 DEF RequestSlot, Slot!Acquire, Slot!Join, Queued, Within, StageInv, HolderInv, LineInv
<1>3. ASSUME NEW c \in Clients, StartScan(c)
      PROVE  Slot!SlotNext \/ UNCHANGED Slot!slotVars
  BY <1>3 DEF StartScan, Slot!Begin, StageInv, HolderInv
<1>4. ASSUME NEW c \in Clients, Connect(c)
      PROVE  Slot!SlotNext \/ UNCHANGED Slot!slotVars
  BY <1>4 DEF Connect, Slot!End, StageInv, HolderInv, ScanInv
<1>5. ASSUME NEW c \in Clients, Subscribed(c)
      PROVE  Slot!SlotNext \/ UNCHANGED Slot!slotVars
  BY <1>5 DEF Subscribed, Slot!End, StageInv, HolderInv, ScanInv
<1>6. ASSUME NEW c \in Clients, SubscribeFailed(c)
      PROVE  Slot!SlotNext \/ UNCHANGED Slot!slotVars
  BY <1>6 DEF SubscribeFailed, Slot!End, StageInv, HolderInv, ScanInv
<1>7. ASSUME NEW c \in Clients, ServicesThrow(c)
      PROVE  Slot!SlotNext \/ UNCHANGED Slot!slotVars
  BY <1>7 DEF ServicesThrow, Slot!End, StageInv, HolderInv, ScanInv
<1>8. ASSUME NEW c \in Clients, ReleaseSlot(c)
      PROVE  Slot!SlotNext \/ UNCHANGED Slot!slotVars
  BY <1>8 DEF ReleaseSlot, Slot!Pass, StageInv, ScanInv, LineInv, Queued, Erase
<1>9. ASSUME NEW c \in Clients, Settle(c)
      PROVE  Slot!SlotNext \/ UNCHANGED Slot!slotVars
  BY <1>9 DEF Settle, StageInv, ScanInv, HolderInv
<1>10. ASSUME NEW c \in Clients, OnStopEvent(c)
      PROVE  Slot!SlotNext \/ UNCHANGED Slot!slotVars
  BY <1>10 DEF OnStopEvent, BatchInv, Ready
<1>11. ASSUME NEW c \in Clients, OnMatch(c)
      PROVE  Slot!SlotNext \/ UNCHANGED Slot!slotVars
  <2>1. holder = c /\ UNCHANGED <<holder, waiters>>
    BY <1>11 DEF OnMatch, HolderInv
  <2>2. \A d \in Clients :
            /\ scanning'[d] = IF d = c THEN FALSE ELSE scanning[d]
            /\ pc'[d] = IF d = c THEN "connect" ELSE pc[d]
    BY <1>11 DEF OnMatch
  <2>3. ActiveClients' = ActiveClients \cup {c}
    BY <2>2
  <2>4. QED  BY <2>1, <2>3 DEF Slot!Begin
<1>12. ASSUME NEW c \in Clients, OnLinkLost(c)
      PROVE  Slot!SlotNext \/ UNCHANGED Slot!slotVars
  BY <1>12 DEF OnLinkLost, StageInv, ScanInv, HolderInv
<1>13. ASSUME NEW c \in Clients, OnIdleWork(c)
      PROVE  Slot!SlotNext \/ UNCHANGED Slot!slotVars
  BY <1>13 DEF OnIdleWork
<1>14. ASSUME NEW c \in Clients, OnSlotEvent(c)
      PROVE  Slot!SlotNext \/ UNCHANGED Slot!slotVars
  BY <1>14 DEF OnSlotEvent, StageInv, ScanInv, HolderInv
<1>15. ASSUME NEW c \in Clients, OnTimerExpired(c)
      PROVE  Slot!SlotNext \/ UNCHANGED Slot!slotVars
  BY <1>15 DEF OnTimerExpired, Slot!End, StageInv, HolderInv, ScanInv
<1>16. ASSUME NEW c \in Clients, TimerFires(c)
      PROVE  Slot!SlotNext \/ UNCHANGED Slot!slotVars
  BY <1>16 DEF TimerFires
<1>17. ASSUME NEW c \in Clients, ScanFound(c)
      PROVE  Slot!SlotNext \/ UNCHANGED Slot!slotVars
  BY <1>17 DEF ScanFound
<1>18. ASSUME NEW c \in Clients, LinkDrops(c)
      PROVE  Slot!SlotNext \/ UNCHANGED Slot!slotVars
  BY <1>18 DEF LinkDrops
<1>19. ASSUME NEW c \in Clients, WriteThrows(c)
      PROVE  Slot!SlotNext \/ UNCHANGED Slot!slotVars
  BY <1>19 DEF WriteThrows
<1>20. ASSUME NEW c \in Clients, LateSignal(c)
      PROVE  Slot!SlotNext \/ UNCHANGED Slot!slotVars
  BY <1>20 DEF LateSignal
<1>21. ASSUME NEW c \in Clients, Stop(c)
      PROVE  Slot!SlotNext \/ UNCHANGED Slot!slotVars
  BY <1>21 DEF Stop
<1>22. CASE UNCHANGED vars
  BY <1>22 DEF vars
<1>23. QED
  BY <1>1, <1>2, <1>3, <1>4, <1>5, <1>6, <1>7, <1>8, <1>9, <1>10, <1>11, <1>12, <1>13, <1>14, <1>15, <1>16, <1>17, <1>18, <1>19, <1>20, <1>21, <1>22
     DEF Next, ThreadStep, EnvironmentStep, Enter, Handle

\* As long as no client is stopped, the coordinator and its clients implement
\* the abstract slot: an exclusive, first-come first-served resource that only
\* its owner uses.
THEOREM Refinement == ASSUME "stop" \notin Faults PROVE Spec => SlotRefinement
<1>1. IndInv /\ [Next]_vars => [Slot!SlotNext]_Slot!slotVars
  BY NextRefines
<1>2. QED
  BY <1>1, InitRefines, Invariance, PTL DEF Spec, SlotRefinement, Slot!SlotSpec
=============================================================================
