----------------------------- MODULE RateLimiter -----------------------------
(***************************************************************************)
(* How a vendor goroutine keeps to its share of the rate limit: the ticker  *)
(* of runVendor, the second ticker that makes it look for a new limit, the  *)
(* number of peers that RunOnce asks Iris for, and getVendorRateLimit        *)
(* (messageQueueManager.go).                                               *)
(*                                                                         *)
(* Time is discrete.  A Go ticker has a channel of one: a tick that nobody  *)
(* has taken is kept, a second one is lost, and Reset starts the period     *)
(* again but leaves the kept tick where it is.  The goroutine may be late   *)
(* at any point; in GetNextPlan it waits for a message as long as it takes. *)
(***************************************************************************)
EXTENDS Integers

CONSTANTS
  Second,       \* units of time in a second
  QPS,          \* config.VendorRateLimitMap of this vendor, in messages a second
  Configured,   \* the vendor has an entry there
  MaxPeers      \* bound: message processors that Iris knows

ASSUME RateAssumption ==
  /\ Second \in Nat /\ QPS \in Nat \ {0}
  /\ Second >= QPS
  /\ Configured \in BOOLEAN
  /\ MaxPeers \in Nat \ {0}

VARIABLES
  peers,                 \* what Iris would answer to GetPeerCount
  peerCount,             \* what RunOnce has made of its last answer
  timeBetweenRequests,
  ticker,                \* period, time left to the next tick, and the kept tick
  rateLimitUpdateTicker, \* the same, without its period of a second
  pc,                    \* "top", "plan", "send", "wait": where runVendor stands
  debt                   \* history: what was sent since the rate last changed, each
                         \* message worth timeBetweenRequests, less the time since

vars == <<peers, peerCount, timeBetweenRequests, ticker, rateLimitUpdateTicker, pc, debt>>

-----------------------------------------------------------------------------

(* getVendorRateLimit: the limit is shared evenly; a vendor without one     *)
(* sends once a second, whatever the number of peers.                      *)
VendorRateLimit(count) == IF Configured THEN (Second \div QPS) * count ELSE Second

NewTicker(period) == [period |-> period, left |-> period, tick |-> FALSE]

Init ==
  /\ peers \in 0 .. MaxPeers
  /\ peerCount = 1
  /\ timeBetweenRequests = VendorRateLimit(1)
  /\ ticker = NewTicker(timeBetweenRequests)
  /\ rateLimitUpdateTicker = NewTicker(Second)
  /\ pc = "top"
  /\ debt = 0

(* Processors come and go.                                                 *)
PeersChange ==
  /\ peers' \in 0 .. MaxPeers
  /\ UNCHANGED <<peerCount, timeBetweenRequests, ticker, rateLimitUpdateTicker, pc, debt>>

(* mutant: believe Iris that there is nobody *)
AsAnswered(n) == n

(* Iris may not have seen this processor yet.                              *)
AtLeastOne(n) == IF n < 1 THEN 1 ELSE n

(* RunOnce asks Iris; when that fails the last count stands.               *)
GetPeerCount ==
  /\ peerCount' = AtLeastOne(peers)
  /\ UNCHANGED <<peers, timeBetweenRequests, ticker, rateLimitUpdateTicker, pc, debt>>

(* mutant: go on at the old pace *)
NoReset(period) == ticker' = ticker

Reset(period) == ticker' = [ticker EXCEPT !.period = period, !.left = period]

(* mutant: never look *)
NeverDue == FALSE

RefreshDue == rateLimitUpdateTicker.tick

(* The top of the loop: the limit is looked up again when a second is over. *)
LoopTop ==
  /\ pc = "top"
  /\ pc' = "plan"
  /\ \/ /\ RefreshDue
        /\ rateLimitUpdateTicker' = [rateLimitUpdateTicker EXCEPT !.tick = FALSE]
        /\ timeBetweenRequests' = VendorRateLimit(peerCount)
        /\ IF timeBetweenRequests' # timeBetweenRequests
           THEN Reset(timeBetweenRequests') /\ debt' = 0
           ELSE UNCHANGED <<ticker, debt>>
     \/ /\ ~RefreshDue
        /\ UNCHANGED <<timeBetweenRequests, ticker, rateLimitUpdateTicker, debt>>
  /\ UNCHANGED <<peers, peerCount>>

(* GetNextPlan returns: there is a message, ...                            *)
GetNextPlan ==
  /\ pc = "plan"
  /\ pc' = "send"
  /\ UNCHANGED <<peers, peerCount, timeBetweenRequests, ticker, rateLimitUpdateTicker, debt>>

(* ... which is sent, ...                                                  *)
SendMessage ==
  /\ pc = "send"
  /\ pc' = "wait"
  /\ debt' = debt + timeBetweenRequests
  /\ UNCHANGED <<peers, peerCount, timeBetweenRequests, ticker, rateLimitUpdateTicker>>

(* ... unless it was deleted meanwhile: that takes a turn all the same.     *)
SkipDeleted ==
  /\ pc = "send"
  /\ pc' = "wait"
  /\ UNCHANGED <<peers, peerCount, timeBetweenRequests, ticker, rateLimitUpdateTicker, debt>>

(* for ; true; <-ticker.C                                                  *)
TakeTick ==
  /\ pc = "wait"
  /\ ticker.tick
  /\ ticker' = [ticker EXCEPT !.tick = FALSE]
  /\ pc' = "top"
  /\ UNCHANGED <<peers, peerCount, timeBetweenRequests, rateLimitUpdateTicker, debt>>

(* A unit of time on a ticker.                                             *)
Elapse(t) == IF t.left = 1 THEN [t EXCEPT !.left = t.period, !.tick = TRUE]
             ELSE [t EXCEPT !.left = t.left - 1]

Tick ==
  /\ ticker' = Elapse(ticker)
  /\ rateLimitUpdateTicker' = Elapse(rateLimitUpdateTicker)
  /\ debt' = IF debt = 0 THEN 0 ELSE debt - 1
  /\ UNCHANGED <<peers, peerCount, timeBetweenRequests, pc>>

VendorStep == LoopTop \/ SendMessage \/ SkipDeleted \/ TakeTick

Next == PeersChange \/ GetPeerCount \/ GetNextPlan \/ VendorStep \/ Tick

Spec == Init /\ [][Next]_vars

(* Time passes, the goroutine is scheduled, and Iris answers now and then.  *)
FairSpec == Spec /\ WF_vars(Tick) /\ WF_vars(VendorStep) /\ WF_vars(GetPeerCount)

-----------------------------------------------------------------------------
(* Properties *)

Tickers == [period : Nat \ {0}, left : Nat \ {0}, tick : BOOLEAN]

TickerType(t) == t \in Tickers /\ t.left <= t.period

(* Every variable has the values its Go counterpart can have; a ticker with *)
(* a period of 0 would be a panic.                                         *)
TypeOK ==
  /\ peers \in 0 .. MaxPeers
  /\ peerCount \in 1 .. MaxPeers
  /\ timeBetweenRequests \in Nat \ {0}
  /\ TickerType(ticker) /\ TickerType(rateLimitUpdateTicker)
  /\ pc \in {"top", "plan", "send", "wait"}
  /\ debt \in Nat

(* The vendor never gets ahead of its limit by more than the three messages *)
(* it may send at once after a pause: one for the turn it has waited with,   *)
(* one for the tick that was kept, one for the tick that comes just then.   *)
RateKept == debt < 3 * timeBetweenRequests

(* When the number of processors does not change any more, and messages      *)
(* keep coming, the vendor comes to send at its share of the limit.         *)
AdoptsLimit ==
  \A n \in 0 .. MaxPeers :
    <>[](peers = n) /\ []<>(pc = "send")
      => <>[](timeBetweenRequests = VendorRateLimit(AtLeastOne(n)) /\ ticker.period = timeBetweenRequests)
=============================================================================
