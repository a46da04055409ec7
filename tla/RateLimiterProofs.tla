-------------------------- MODULE RateLimiterProofs --------------------------
(***************************************************************************)
(* Proofs about RateLimiter: its types, and that the rate is kept whatever  *)
(* the limit, the number of peers and the delays of the goroutine.         *)
(*                                                                         *)
(* RateKept is not inductive: how far the vendor may get ahead depends on   *)
(* the turns it has in hand and on the time to the next tick.  Credit says  *)
(* how: a turn in hand and a kept tick are worth a message each, and what   *)
(* has been sent and what could be sent at once never exceeds two messages  *)
(* plus the time that is left to the next tick.                            *)
(***************************************************************************)
EXTENDS RateLimiter, TLAPS

InHand == IF pc = "wait" THEN 0 ELSE timeBetweenRequests
Kept   == IF ticker.tick THEN timeBetweenRequests ELSE 0

Credit == debt + InHand + Kept < 2 * timeBetweenRequests + ticker.left

InSync == ticker.period = timeBetweenRequests

IInv == TypeOK /\ InSync /\ Credit

USE RateAssumption DEF RateAssumption

(* A limit that is shared leaves everybody some time between messages.      *)
LEMMA LimitPositive ==
  ASSUME NEW n \in 1 .. MaxPeers
  PROVE  VendorRateLimit(n) \in Nat \ {0}
<1> DEFINE a == Second \div QPS
<1>1. a \in Nat \ {0}
  BY Z3
<1>2. \A b \in Nat \ {0} : b * n \in Nat \ {0}
  BY Z3
<1>3. a * n \in Nat \ {0}
  <2> HIDE DEF a
  <2> QED BY <1>1, <1>2
<1>4. Second \in Nat \ {0}
  OBVIOUS
<1> QED BY <1>3, <1>4, Zenon DEF VendorRateLimit

(* A unit of time leaves a ticker well formed, and either its period is     *)
(* over and there is a tick, or the time left is one less.                 *)
LEMMA ElapseType ==
  ASSUME NEW t, TickerType(t)
  PROVE  /\ TickerType(Elapse(t))
         /\ Elapse(t).period = t.period
         /\ t.left = 1 => Elapse(t).left = t.period /\ Elapse(t).tick
         /\ t.left # 1 => Elapse(t).left = t.left - 1 /\ Elapse(t).tick = t.tick
<1> USE DEF TickerType, Tickers
<1>1. CASE t.left = 1
  <2> Elapse(t) = [period |-> t.period, left |-> t.period, tick |-> TRUE]
    BY <1>1 DEF Elapse
  <2> QED BY <1>1
<1>2. CASE t.left # 1
  <2> Elapse(t) = [period |-> t.period, left |-> t.left - 1, tick |-> t.tick]
    BY <1>2 DEF Elapse
  <2> QED BY <1>2
<1> QED BY <1>1, <1>2

LEMMA NewTickerType ==
  ASSUME NEW d \in Nat \ {0}
  PROVE  TickerType(NewTicker(d))
  BY DEF TickerType, Tickers, NewTicker

(* Two tickers start with a whole period and no tick, and the first turn is *)
(* in hand.                                                                *)
LEMMA InitInv == Init => IInv
<1> SUFFICES ASSUME Init PROVE IInv
  OBVIOUS
<1>1. VendorRateLimit(1) \in Nat \ {0} /\ Second \in Nat \ {0}
  BY LimitPositive
<1>2. timeBetweenRequests \in Nat \ {0}
  BY <1>1 DEF Init
<1>3. TypeOK
  BY <1>1, <1>2, NewTickerType DEF Init, TypeOK
<1>4. InSync /\ Credit
  BY <1>2 DEF Init, InSync, Credit, InHand, Kept, NewTicker
<1> QED BY <1>3, <1>4 DEF IInv

LEMMA LoopTopInv == IInv /\ LoopTop => IInv'
<1> SUFFICES ASSUME IInv, LoopTop PROVE IInv'
  OBVIOUS
<1> USE DEF IInv, TypeOK, InSync, TickerType, Tickers
<1>1. CASE RefreshDue /\ timeBetweenRequests' # timeBetweenRequests
  <2>1. timeBetweenRequests' \in Nat \ {0}
    BY <1>1, LimitPositive DEF LoopTop
  <2>2. /\ ticker'.period = timeBetweenRequests'
        /\ ticker'.left = timeBetweenRequests'
        /\ ticker'.tick = ticker.tick
        /\ TickerType(ticker)'
        /\ TickerType(rateLimitUpdateTicker)'
        /\ debt' = 0 /\ pc' = "plan"
    <3>1. /\ ticker' = [ticker EXCEPT !.period = timeBetweenRequests', !.left = timeBetweenRequests']
          /\ rateLimitUpdateTicker' = [rateLimitUpdateTicker EXCEPT !.tick = FALSE]
          /\ debt' = 0 /\ pc' = "plan"
      BY <1>1, Zenon DEF LoopTop, Reset
    <3>2. ticker' = [period |-> timeBetweenRequests', left |-> timeBetweenRequests', tick |-> ticker.tick]
      BY <3>1
    <3>3. rateLimitUpdateTicker' = [period |-> rateLimitUpdateTicker.period,
                                    left |-> rateLimitUpdateTicker.left, tick |-> FALSE]
      BY <3>1
    <3>4. TickerType(ticker)'
      BY <2>1, <3>2
    <3>5. TickerType(rateLimitUpdateTicker)'
      BY <3>3
    <3> QED BY <3>1, <3>2, <3>4, <3>5
  <2>3. peers' = peers /\ peerCount' = peerCount
    BY DEF LoopTop
  <2>4. TypeOK'
    <3> HIDE DEF TickerType
    <3> QED BY <2>1, <2>2, <2>3
  <2>5. InSync'
    BY <2>2
  <2>6. Credit'
    <3>1. InHand' = timeBetweenRequests'
      BY <2>2 DEF InHand
    <3>2. Kept' \in {0, timeBetweenRequests'}
      BY DEF Kept
    <3>3. ASSUME NEW P \in Nat \ {0}, NEW k \in {0, P}
          PROVE  0 + P + k < 2 * P + P
      OBVIOUS
    <3>4. 0 + InHand' + Kept' < 2 * timeBetweenRequests' + timeBetweenRequests'
      BY <2>1, <3>1, <3>2, <3>3
    <3> QED BY <2>2, <3>4 DEF Credit
  <2> QED BY <2>4, <2>5, <2>6
<1>2. CASE ~(RefreshDue /\ timeBetweenRequests' # timeBetweenRequests)
  <2>1. /\ timeBetweenRequests' = timeBetweenRequests /\ ticker' = ticker /\ debt' = debt
        /\ peers' = peers /\ peerCount' = peerCount /\ pc = "top" /\ pc' = "plan"
    BY <1>2, Zenon DEF LoopTop
  <2>2. TickerType(rateLimitUpdateTicker)'
    BY DEF LoopTop
  <2>3. TypeOK'
    BY <2>1, <2>2
  <2>4. InSync' /\ Credit'
    BY <2>1 DEF Credit, InHand, Kept
  <2> QED BY <2>3, <2>4
<1> QED BY <1>1, <1>2

(* The turn in hand becomes debt, or is lost.                              *)
LEMMA SendInv == IInv /\ (SendMessage \/ SkipDeleted) => IInv'
  BY DEF IInv, TypeOK, InSync, TickerType, Tickers, Credit, InHand, Kept, SendMessage, SkipDeleted

(* The kept tick becomes the turn in hand.                                 *)
LEMMA TakeTickInv == IInv /\ TakeTick => IInv'
<1> SUFFICES ASSUME IInv, TakeTick PROVE IInv'
  OBVIOUS
<1>1. /\ ticker' \in Tickers
      /\ ticker'.period = ticker.period
      /\ ticker'.left = ticker.left
      /\ ~ticker'.tick
  BY DEF TakeTick, IInv, TypeOK, TickerType, Tickers
<1> QED BY <1>1 DEF IInv, TypeOK, InSync, TickerType, Credit, InHand, Kept, TakeTick

(* A unit of time lets the debt shrink with the time left, until the next   *)
(* tick is worth another message.                                          *)
LEMMA TickInv == IInv /\ Tick => IInv'
<1> SUFFICES ASSUME IInv, Tick PROVE IInv'
  OBVIOUS
<1>1. TickerType(ticker) /\ TickerType(rateLimitUpdateTicker)
  BY DEF IInv, TypeOK
<1>2. TypeOK'
  BY <1>1, ElapseType DEF IInv, TypeOK, Tick
<1>3. InSync'
  BY <1>1, ElapseType DEF IInv, InSync, Tick
<1>4. Credit'
  <2> DEFINE T == timeBetweenRequests
  <2>1. /\ T \in Nat \ {0} /\ debt \in Nat /\ InHand \in Nat /\ Kept \in Nat
        /\ ticker.left \in 1 .. T /\ InHand <= T /\ Kept <= T
        /\ debt + InHand + Kept < 2 * T + ticker.left
    BY DEF IInv, TypeOK, TickerType, Tickers, InSync, Credit, InHand, Kept
  <2>2. T' = T /\ InHand' = InHand /\ debt' = (IF debt = 0 THEN 0 ELSE debt - 1)
    BY DEF Tick, InHand
  <2>3. CASE ticker.left = 1
    <3>1. ticker'.left = T /\ Kept' = T
      BY <1>1, <2>3, ElapseType DEF Tick, Kept, IInv, InSync
    <3> QED BY <2>1, <2>2, <2>3, <3>1 DEF Credit
  <2>4. CASE ticker.left # 1
    <3>1. ticker'.left = ticker.left - 1 /\ Kept' = Kept
      BY <1>1, <2>2, <2>4, ElapseType DEF Tick, Kept
    <3> QED BY <2>1, <2>2, <2>4, <3>1 DEF Credit
  <2> QED BY <2>3, <2>4
<1> QED BY <1>2, <1>3, <1>4 DEF IInv

(* What happens elsewhere does not touch the ticker.                       *)
LEMMA OthersInv == IInv /\ (PeersChange \/ GetPeerCount \/ GetNextPlan \/ UNCHANGED vars) => IInv'
  BY DEF IInv, TypeOK, InSync, TickerType, Tickers, Credit, InHand, Kept, PeersChange, GetPeerCount,
         GetNextPlan, AtLeastOne, vars

(* IInv holds in every state.                                              *)
THEOREM Inductive == Spec => []IInv
<1>1. IInv /\ [Next]_vars => IInv'
  BY LoopTopInv, SendInv, TakeTickInv, TickInv, OthersInv DEF Next, VendorStep
<1> QED BY <1>1, InitInv, PTL DEF Spec

(* The variables have the values their Go counterparts can have: no ticker  *)
(* ever gets a period of zero (messageQueueManager.go:203-214, 369-381).   *)
THEOREM TypeCorrect == Spec => []TypeOK
<1>1. IInv => TypeOK
  BY DEF IInv
<1> QED BY <1>1, Inductive, PTL

(* The rate is kept but for three messages after a pause                   *)
(* (messageQueueManager.go:230-247).                                       *)
THEOREM RateCorrect == Spec => []RateKept
<1>1. IInv => RateKept
  BY DEF IInv, TypeOK, TickerType, Tickers, InSync, Credit, InHand, Kept, RateKept
<1> QED BY <1>1, Inductive, PTL
=============================================================================
