------------------------- MODULE NotificationsProofs -------------------------
(***************************************************************************)
(* Proofs about Notifications, for every plan and whatever Iris answers.    *)
(* ContextInv follows the entry "iris" from one notification to the next;   *)
(* NoticeInv relates the map of destinations to what Iris has named, and    *)
(* the notices to the entries of the map that have had theirs.              *)
(***************************************************************************)
EXTENDS Notifications, TLAPS

ContextInv ==
  /\ at \in {"tracking", "setup", "send"}
  /\ step \in Nat \ {0}
  /\ ready \in Nat
  /\ at = "tracking" => ready = 0
  /\ ready > 0 => iris = <<step, ready>>
  /\ at = "send" => ready = Len(Steps[step])
  /\ ContextOfLast

(* Whose variables are in the Context is known in every state.             *)
LEMMA ContextInvariant ==
  ASSUME NEW Notes, Steps \in Seq(Seq(Notes))
  PROVE  Spec => []ContextInv
<1>1. Init => ContextInv
  BY DEF Init, ContextInv, ContextOfLast
<1>2. ContextInv /\ [Next]_vars => ContextInv'
  <2> SUFFICES ASSUME ContextInv, [Next]_vars
               PROVE  ContextInv'
    OBVIOUS
  <2>1. CASE CreateTrackingMessage
    <3>1. ready' = 0 /\ step' = step /\ at' = "setup"
      BY <2>1 DEF CreateTrackingMessage, ContextInv
    <3>2. ContextOfLast'
      BY <2>1 DEF CreateTrackingMessage, ContextInv, ContextOfLast, Tracking
    <3> QED BY <3>1, <3>2 DEF ContextInv
  <2>2. CASE InitNotification
    BY <2>2 DEF InitNotification, ContextInv, ContextOfLast
  <2>3. CASE StepReady
    BY <2>3 DEF StepReady, ContextInv, ContextOfLast
  <2>4. CASE NextStep
    BY <2>4 DEF NextStep, ContextInv, ContextOfLast
  <2>5. ASSUME NEW p \in PlanNotes, GetBuildMessage(p)
        PROVE  ContextInv'
    <3>0. PICK s \in DOMAIN Steps : p \in {<<s, j>> : j \in DOMAIN Steps[s]}
      BY DEF PlanNotes
    <3>1. PICK k \in DOMAIN Steps[s] : p = <<s, k>>
      BY <3>0
    <3>2. s = step /\ at = "send"
      BY <2>5, <3>1 DEF GetBuildMessage
    <3>3. Steps[s] \in Seq(Notes)
      OBVIOUS
    <3>4. k \in 1 .. Len(Steps[s]) /\ Len(Steps[s]) \in Nat
      BY <3>3
    <3>5. iris = <<step, Len(Steps[step])>>
      BY <3>2, <3>4 DEF ContextInv
    <3>6. p # Tracking
      BY <3>1, <3>2 DEF ContextInv, Tracking
    <3>7. ContextOfLast'
      BY <2>5, <3>1, <3>2, <3>5, <3>6 DEF GetBuildMessage, ContextInv, ContextOfLast
    <3> QED BY <2>5, <3>7 DEF GetBuildMessage, ContextInv
  <2>6. CASE TriggerAggregationMessages
    <3>1. UNCHANGED escalateVars
      BY <2>6 DEF TriggerAggregationMessages, Resolve, ResolveFails, AddMessage
    <3> QED BY <3>1 DEF escalateVars, ContextInv, ContextOfLast
  <2>7. CASE UNCHANGED vars
    BY <2>7 DEF vars, escalateVars, ContextInv, ContextOfLast
  <2> QED BY <2>1, <2>2, <2>3, <2>4, <2>5, <2>6, <2>7 DEF Next, Escalate
<1> QED BY <1>1, <1>2, PTL DEF Spec

(* Every notification of a step is rendered with the variables of the last  *)
(* one of its step, and only the tracking message surely with its own.      *)
THEOREM ContextOfLastCorrect ==
  ASSUME NEW Notes, Steps \in Seq(Seq(Notes))
  PROVE  Spec => []ContextOfLast
<1>1. ContextInv => ContextOfLast
  BY DEF ContextInv
<1> QED BY <1>1, ContextInvariant, PTL

-----------------------------------------------------------------------------

NoticeInv ==
  /\ \A e \in DOMAIN destinationMap : <<e[1], e[2], destinationMap[e]>> \in offered
  /\ \A o \in offered : <<o[1], o[2]>> \in DOMAIN destinationMap
  /\ told \subseteq DOMAIN destinationMap
  /\ notices \in Seq(Modes \X Targets \X Destinations)
  /\ offered \subseteq Modes \X Targets \X Destinations
  /\ \A i \in DOMAIN notices : <<notices[i][1], notices[i][2]>> \in told
  /\ \A e \in told : \E i \in DOMAIN notices : notices[i][1] = e[1] /\ notices[i][2] = e[2]
  /\ OneNotice
  /\ OnlyWhereOffered

(* What an answer of Iris adds to the map is for targets it names, by modes *)
(* they have a contact for.                                                *)
LEMMA EntriesAreOffered ==
  ASSUME NEW users \in UserInfoMaps, NEW e \in Entries(users)
  PROVE  /\ e = <<e[1], e[2]>>
         /\ <<e[1], e[2], users[e[2]].contacts[e[1]]>> \in Modes \X Targets \X Destinations
<1>1. PICK T \in SUBSET Targets : users \in [T -> UserInfo]
  BY DEF UserInfoMaps
<1>2. PICK t \in T : e = <<Via(users[t]), t>> /\ Reachable(users[t])
  BY <1>1 DEF Entries
<1>3. PICK M \in SUBSET Modes : users[t].contacts \in [M -> Destinations]
  <2>1. users[t] \in UserInfo
    BY <1>1
  <2>2. users[t].contacts \in UNION {[M -> Destinations] : M \in SUBSET Modes}
    <3> HIDE DEF Modes
    <3> QED BY <2>1 DEF UserInfo
  <2> QED BY <2>2
<1>4. Via(users[t]) \in M
  BY <1>2, <1>3 DEF Reachable
<1> QED BY <1>2, <1>3, <1>4

(* The map and the notices agree with what Iris has answered.              *)
LEMMA NoticeInvariant == Spec => []NoticeInv
<1>1. Init => NoticeInv
  BY DEF Init, NoticeInv, OneNotice, OnlyWhereOffered
<1>2. NoticeInv /\ [Next]_vars => NoticeInv'
  <2> SUFFICES ASSUME NoticeInv, [Next]_vars
               PROVE  NoticeInv'
    OBVIOUS
  <2>1. ASSUME NEW p \in PlanNotes, NEW users \in UserInfoMaps, Resolve(p, users)
        PROVE  NoticeInv'
    <3> DEFINE E == Entries(users)
               Place(e) == users[e[2]].contacts[e[1]]
    <3>1. /\ DOMAIN destinationMap' = DOMAIN destinationMap \union E
          /\ \A e \in E : destinationMap'[e] = Place(e)
          /\ \A e \in DOMAIN destinationMap \ E : destinationMap'[e] = destinationMap[e]
          /\ offered' = offered \union {<<e[1], e[2], Place(e)>> : e \in E}
          /\ told' = told /\ notices' = notices
      BY <2>1, Zenon DEF Resolve
    <3>2. \A e \in E : e = <<e[1], e[2]>> /\ <<e[1], e[2], Place(e)>> \in Modes \X Targets \X Destinations
      BY EntriesAreOffered
    <3> HIDE DEF E, Place
    <3>3. \A e \in DOMAIN destinationMap' : <<e[1], e[2], destinationMap'[e]>> \in offered'
      BY <3>1 DEF NoticeInv
    <3>4. \A o \in offered' : <<o[1], o[2]>> \in DOMAIN destinationMap'
      <4>1. ASSUME NEW e \in E
            PROVE  <<e[1], e[2]>> \in DOMAIN destinationMap'
        BY <3>1, <3>2
      <4>2. ASSUME NEW o \in offered', o \notin offered
            PROVE  \E e \in E : o[1] = e[1] /\ o[2] = e[2]
        <5>1. PICK e \in E : o = <<e[1], e[2], Place(e)>>
          BY <3>1, <4>2
        <5> QED BY <5>1
      <4>3. \A o \in offered : <<o[1], o[2]>> \in DOMAIN destinationMap'
        BY <3>1 DEF NoticeInv
      <4> QED BY <4>1, <4>2, <4>3
    <3>5. offered' \subseteq Modes \X Targets \X Destinations
      BY <3>1, <3>2 DEF NoticeInv
    <3>6. OneNotice' /\ OnlyWhereOffered'
      BY <3>1 DEF NoticeInv, OneNotice, OnlyWhereOffered
    <3> QED BY <3>1, <3>3, <3>4, <3>5, <3>6 DEF NoticeInv
  <2>2. ASSUME NEW p \in PlanNotes, ResolveFails(p)
        PROVE  NoticeInv'
    BY <2>2 DEF ResolveFails, NoticeInv, OneNotice, OnlyWhereOffered
  <2>3. ASSUME NEW e \in Modes \X Targets, AddMessage(e)
        PROVE  NoticeInv'
    <3> DEFINE n == <<e[1], e[2], destinationMap[e]>>
    <3>1. /\ e \in DOMAIN destinationMap /\ e \notin told
          /\ told' = told \union {e} /\ notices' = Append(notices, n)
          /\ destinationMap' = destinationMap /\ offered' = offered
      BY <2>3 DEF AddMessage
    <3>2. n \in offered /\ n \in Modes \X Targets \X Destinations
      BY <3>1 DEF NoticeInv
    <3>3. e = <<n[1], n[2]>>
      OBVIOUS
    <3> HIDE DEF n
    <3>4. /\ notices' \in Seq(Modes \X Targets \X Destinations)
          /\ Len(notices) \in Nat
          /\ DOMAIN notices' = 1 .. Len(notices) + 1 /\ DOMAIN notices = 1 .. Len(notices)
          /\ notices'[Len(notices) + 1] = n
          /\ \A i \in DOMAIN notices : notices'[i] = notices[i]
      BY <3>1, <3>2 DEF NoticeInv
    <3>5. \A i \in DOMAIN notices' : i = Len(notices) + 1 \/ i \in DOMAIN notices
      BY <3>4
    <3>6. \A i \in DOMAIN notices' : <<notices'[i][1], notices'[i][2]>> \in told'
      BY <3>1, <3>3, <3>4, <3>5 DEF NoticeInv
    <3>7. \A f \in told' : \E i \in DOMAIN notices' : notices'[i][1] = f[1] /\ notices'[i][2] = f[2]
      <4>1. Len(notices) + 1 \in DOMAIN notices' /\ DOMAIN notices \subseteq DOMAIN notices'
        BY <3>4
      <4>2. n[1] = e[1] /\ n[2] = e[2]
        BY DEF n
      <4>3. ASSUME NEW f \in told
            PROVE  \E i \in DOMAIN notices' : notices'[i][1] = f[1] /\ notices'[i][2] = f[2]
        <5>1. PICK i \in DOMAIN notices : notices[i][1] = f[1] /\ notices[i][2] = f[2]
          BY DEF NoticeInv
        <5> QED BY <5>1, <4>1, <3>4
      <4> QED BY <3>1, <3>4, <4>1, <4>2, <4>3
    <3>8. OneNotice'
      <4>1. \A i \in DOMAIN notices : notices[i][1] # n[1] \/ notices[i][2] # n[2]
        BY <3>1, <3>3 DEF NoticeInv
      <4> QED BY <3>4, <3>5, <4>1 DEF NoticeInv, OneNotice
    <3>9. OnlyWhereOffered'
      BY <3>1, <3>2, <3>4, <3>5 DEF NoticeInv, OnlyWhereOffered
    <3> QED BY <3>1, <3>4, <3>6, <3>7, <3>8, <3>9 DEF NoticeInv
  <2>4. CASE Escalate
    <3>1. UNCHANGED noticeVars
      BY <2>4 DEF Escalate, CreateTrackingMessage, InitNotification, StepReady, NextStep, GetBuildMessage
    <3> QED BY <3>1 DEF noticeVars, NoticeInv, OneNotice, OnlyWhereOffered
  <2>5. CASE UNCHANGED vars
    BY <2>5 DEF vars, noticeVars, NoticeInv, OneNotice, OnlyWhereOffered
  <2> QED BY <2>1, <2>2, <2>3, <2>4, <2>5 DEF Next, TriggerAggregationMessages
<1> QED BY <1>1, <1>2, PTL DEF Spec

(* Nobody is told twice by the same mode that a plan is being aggregated.   *)
THEOREM OneNoticeCorrect == Spec => []OneNotice
<1>1. NoticeInv => OneNotice
  BY DEF NoticeInv
<1> QED BY <1>1, NoticeInvariant, PTL

(* Everyone that Iris named a destination for is told, though calls for     *)
(* other notifications of the plan failed.                                 *)
THEOREM NobodyForgottenCorrect == Spec => []NobodyForgotten
<1>1. NoticeInv => NobodyForgotten
  <2> SUFFICES ASSUME NoticeInv, told = DOMAIN destinationMap, NEW o \in offered
               PROVE  \E i \in DOMAIN notices : notices[i][1] = o[1] /\ notices[i][2] = o[2]
    BY DEF NobodyForgotten
  <2>1. <<o[1], o[2]>> \in told
    BY DEF NoticeInv
  <2> QED BY <2>1 DEF NoticeInv
<1> QED BY <1>1, NoticeInvariant, PTL

(* The notices go only where Iris said that somebody can be reached.        *)
THEOREM OnlyWhereOfferedCorrect == Spec => []OnlyWhereOffered
<1>1. NoticeInv => OnlyWhereOffered
  BY DEF NoticeInv
<1> QED BY <1>1, NoticeInvariant, PTL
=============================================================================
