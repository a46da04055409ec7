------------------------------- MODULE Process -------------------------------
(***************************************************************************)
(* The process as a whole, from main (main.go) down to the loops of its     *)
(* parts: how it comes up, gets the keys of the applications from Iris      *)
(* (hmacAuth.go), and ends when a signal closes the quit channel.          *)
(*                                                                         *)
(* Each loop does its work, looks at quit and waits for its ticker.  What   *)
(* the work is belongs to the other modules; here it matters which loop    *)
(* gets to look at quit, and what it does before it ends.  The heartbeat,   *)
(* the HTTP server and the goroutines that only add a message to a queue or  *)
(* store one are not waited for: they end with the process.                *)
(***************************************************************************)
EXTENDS FiniteSets

CONSTANTS
  Vendors,   \* the vendor goroutines of the message queue manager
  Apps       \* applications that may have a key in Iris

Loops == {"authChecker", "aggregationManager", "messageQueueManager", "incidentManager"}

VARIABLES
  irisApps,     \* the applications whose keys Iris would send
  appAuthMap,   \* the applications whose keys we have
  readyStatus,
  quit,         \* the quit channel is closed
  main,         \* "running", "waiting" for the loops, "exited", "fatal" or "panic"
  loop,         \* loop |-> "setup", "work", "look", "wait" or "done"; and
                \* "quitting", "vendorWg" of the message queue manager
  vendorQuit,   \* the channel of that name is closed
  closed,       \* the vendors whose channel of plans is closed
  vendor        \* vendor |-> "top", "plan", "send", "wait" or "done": runVendor

authVars   == <<irisApps, appAuthMap, readyStatus>>
vendorVars == <<vendorQuit, closed, vendor>>
vars == <<authVars, quit, main, loop, vendorVars>>

Alive == main \in {"running", "waiting"}

Init ==
  /\ irisApps \in SUBSET Apps
  /\ appAuthMap = {}
  /\ readyStatus = FALSE
  /\ quit = FALSE
  /\ main = "running"
  /\ loop = [l \in Loops |-> IF l = "incidentManager" THEN "setup" ELSE "work"]
  /\ vendorQuit = FALSE
  /\ closed = {}
  /\ vendor = [v \in Vendors |-> "top"]

Goto(l, at) == loop' = [loop EXCEPT ![l] = at]

-----------------------------------------------------------------------------
(* authChecker.Run *)

(* Applications get and lose their keys.                                   *)
KeysChange ==
  /\ Alive
  /\ irisApps' \in SUBSET Apps
  /\ UNCHANGED <<appAuthMap, readyStatus, quit, main, loop, vendorVars>>

(* mutant: the keys we have are good enough *)
FetchedOnce == IF readyStatus THEN appAuthMap ELSE irisApps

Fetched == irisApps

(* mutant: take the answer whatever it is *)
AnyAnswer == TRUE

(* No keys at all is not believed.                                         *)
SomeKeys == Fetched # {}

(* Iris answers: the keys replace the ones we had.                         *)
RefreshKeys ==
  /\ Alive
  /\ loop["authChecker"] = "work"
  /\ \/ SomeKeys /\ appAuthMap' = Fetched /\ readyStatus' = TRUE
     \/ ~SomeKeys /\ UNCHANGED <<appAuthMap, readyStatus>>
  /\ Goto("authChecker", "look")
  /\ UNCHANGED <<irisApps, quit, main, vendorVars>>

(* Iris does not answer: the loop goes on without a look at quit.           *)
RefreshFails ==
  /\ Alive
  /\ loop["authChecker"] = "work"
  /\ Goto("authChecker", "wait")
  /\ UNCHANGED <<authVars, quit, main, vendorVars>>

-----------------------------------------------------------------------------
(* The other loops *)

(* incidentManager.Run needs the priorities and modes of Iris ...          *)
LoadPriorityMap ==
  /\ Alive
  /\ loop["incidentManager"] = "setup"
  /\ Goto("incidentManager", "wait")
  /\ UNCHANGED <<authVars, quit, main, vendorVars>>

(* ... and takes the process down without them.                            *)
LoadFails ==
  /\ Alive
  /\ loop["incidentManager"] = "setup"
  /\ main' = "fatal"
  /\ UNCHANGED <<authVars, quit, loop, vendorVars>>

(* RunOnce and its like: whatever Iris answers or not, quit comes next.     *)
Work(l) ==
  /\ Alive
  /\ l # "authChecker"
  /\ loop[l] = "work"
  /\ Goto(l, "look")
  /\ UNCHANGED <<authVars, quit, main, vendorVars>>

LookAtQuit(l) ==
  /\ Alive
  /\ loop[l] = "look"
  /\ Goto(l, IF ~quit THEN "wait" ELSE IF l = "messageQueueManager" THEN "quitting" ELSE "done")
  /\ vendorQuit' = (vendorQuit \/ (quit /\ l = "messageQueueManager"))
  /\ UNCHANGED <<authVars, quit, main, closed, vendor>>

NextTick(l) ==
  /\ Alive
  /\ loop[l] = "wait"
  /\ Goto(l, "work")
  /\ UNCHANGED <<authVars, quit, main, vendorVars>>

-----------------------------------------------------------------------------
(* The end of messageQueueManager.Run, and the vendors *)

(* mutant: a vendor that has nothing to do needs not be told *)
BusyVendors == {v \in Vendors \ closed : vendor[v] # "plan"}

ToQuit == Vendors \ closed

(* mutant: while the loop still works *)
AnyTime == loop["messageQueueManager"] \in {"work", "quitting"}

(* QuitVendor comes after close(vendorQuit).                               *)
ReadyToQuit == loop["messageQueueManager"] = "quitting"

(* QuitVendor closes the channel of plans of one vendor after the other.    *)
QuitVendor(v) ==
  /\ Alive
  /\ ReadyToQuit
  /\ v \in ToQuit
  /\ closed' = closed \union {v}
  /\ UNCHANGED <<authVars, quit, main, loop, vendorQuit, vendor>>

AllQuit ==
  /\ Alive
  /\ loop["messageQueueManager"] = "quitting"
  /\ ToQuit = {}
  /\ Goto("messageQueueManager", "vendorWg")
  /\ UNCHANGED <<authVars, quit, main, vendorVars>>

(* mutant: do not wait *)
NobodyToWaitFor == TRUE

VendorsDone == \A v \in Vendors : vendor[v] = "done"

VendorWgWait ==
  /\ Alive
  /\ loop["messageQueueManager"] = "vendorWg"
  /\ VendorsDone
  /\ Goto("messageQueueManager", "done")
  /\ UNCHANGED <<authVars, quit, main, vendorVars>>

VendorGoto(v, from, to) ==
  /\ Alive
  /\ vendor[v] = from
  /\ vendor' = [vendor EXCEPT ![v] = to]
  /\ UNCHANGED <<authVars, quit, main, loop, vendorQuit, closed>>

(* The top of the loop is the only place where a vendor looks at vendorQuit. *)
VendorTop(v) == VendorGoto(v, "top", IF vendorQuit THEN "done" ELSE "plan")

(* GetNextPlan: a message, if there is one ...                             *)
GetNextPlan(v) == VendorGoto(v, "plan", "send")

(* ... or nothing because the channel is closed.                           *)
NoPlan(v) == v \in closed /\ VendorGoto(v, "plan", "wait")

(* SendMessage returns, and the queue advances.                            *)
SendMessage(v) == VendorGoto(v, "send", "wait")

(* A plan is sent on the closed channel: by the vendor, in AdvanceQueue or   *)
(* for a retry, or by a goroutine that RunOnce started and nobody waits for. *)
SenderPanics(v) ==
  /\ Alive
  /\ v \in closed
  /\ main' = "panic"
  /\ UNCHANGED <<authVars, quit, loop, vendorVars>>

VendorTick(v) == VendorGoto(v, "wait", "top")

-----------------------------------------------------------------------------
(* main *)

(* SIGINT or SIGTERM.                                                      *)
Signal ==
  /\ main = "running"
  /\ main' = "waiting"
  /\ quit' = TRUE
  /\ UNCHANGED <<authVars, loop, vendorVars>>

(* The HTTP server cannot listen: logger.Fatal.                            *)
ServerFails ==
  /\ Alive
  /\ main' = "fatal"
  /\ UNCHANGED <<authVars, quit, loop, vendorVars>>

MainWgWait ==
  /\ main = "waiting"
  /\ \A l \in Loops : loop[l] = "done"
  /\ main' = "exited"
  /\ UNCHANGED <<authVars, quit, loop, vendorVars>>

-----------------------------------------------------------------------------

QueueEnds == (\E v \in Vendors : QuitVendor(v)) \/ AllQuit \/ VendorWgWait

LoopStep(l) == Work(l) \/ LookAtQuit(l) \/ NextTick(l)

(* A vendor waits in GetNextPlan as long as nobody wants to send anything.  *)
VendorStep(v) == VendorTop(v) \/ NoPlan(v) \/ SendMessage(v) \/ VendorTick(v)

Next ==
  \/ KeysChange \/ RefreshKeys \/ RefreshFails \/ LoadPriorityMap \/ LoadFails
  \/ \E l \in Loops : LoopStep(l)
  \/ QueueEnds
  \/ \E v \in Vendors : VendorStep(v) \/ GetNextPlan(v) \/ SenderPanics(v)
  \/ Signal \/ ServerFails \/ MainWgWait

Spec == Init /\ [][Next]_vars

(* Every goroutine is scheduled, and SendMessage returns.  Nothing is said   *)
(* of Iris: each call of the checker is over in the end, maybe unanswered.  *)
FairSpec ==
  /\ Spec
  /\ \A l \in Loops : WF_vars(LoopStep(l))
  /\ \A v \in Vendors : WF_vars(VendorStep(v))
  /\ WF_vars(RefreshKeys \/ RefreshFails)
  /\ WF_vars(LoadPriorityMap \/ LoadFails)
  /\ WF_vars(QueueEnds)
  /\ WF_vars(MainWgWait)

-----------------------------------------------------------------------------
(* Properties *)

(* Every variable has the values its Go counterpart can have, and channels  *)
(* of plans are closed only when the vendors know that the end has come.    *)
TypeOK ==
  /\ irisApps \subseteq Apps /\ appAuthMap \subseteq Apps
  /\ readyStatus \in BOOLEAN /\ quit \in BOOLEAN /\ vendorQuit \in BOOLEAN
  /\ main \in {"running", "waiting", "exited", "fatal", "panic"}
  /\ loop \in [Loops -> {"setup", "work", "look", "wait", "quitting", "vendorWg", "done"}]
  /\ vendor \in [Vendors -> {"top", "plan", "send", "wait", "done"}]
  /\ closed \subseteq Vendors
  /\ closed # {} => vendorQuit

(* Once the process reports itself ready it has keys, and keeps having some *)
(* whatever Iris answers: the API does not lock everybody out again.       *)
ReadyHasKeys == readyStatus => appAuthMap # {}

(* main.go:146, messageQueueManager.go:480: when the process ends by itself *)
(* all loops have ended, and all vendors before them, so that no vendor is   *)
(* in the middle of a message.  The goroutines of persistMsg and of         *)
(* AddToVendorQueue may be: nothing waits for those.                       *)
GracefulExit ==
  main = "exited" => /\ \A l \in Loops : loop[l] = "done"
                     /\ \A v \in Vendors : vendor[v] = "done"

(* Of the calls that the checker makes again and again some are answered.   *)
IrisAnswers == SF_vars(RefreshKeys)

OnlyCheckerLeft ==
  /\ \A l \in Loops \ {"authChecker"} : loop[l] = "done"
  /\ loop["authChecker"] \in {"work", "wait"}

(* After the signal the process ends, whatever its vendors were doing.  The  *)
(* one thing that can keep it for ever is the checker, which looks at quit   *)
(* only when Iris has answered (hmacAuth.go:162): it does end if Iris does.  *)
ShutdownEnds ==
  /\ quit ~> ~Alive \/ OnlyCheckerLeft
  /\ IrisAnswers => (quit ~> ~Alive)

(* While the process runs and Iris answers now and then, the keys it has     *)
(* become the keys that Iris has, unless that is none.                      *)
AdoptsKeys ==
  \A K \in (SUBSET Apps) \ {{}} :
    [](main = "running") /\ IrisAnswers /\ <>[](irisApps = K) => <>[](appAuthMap = K)
=============================================================================
