----------------------------- MODULE Termination -----------------------------
(***************************************************************************)
(* The end of a program (runtime/gc/termination.c): the first processor    *)
(* that asks becomes the leader and joins the others, which exit where     *)
(* they enter the runtime or poll while they wait; and the heartbeat       *)
(* signals that processors send each other meanwhile (runtime/gc/          *)
(* handler.c), which must not reach a thread that has exited.              *)
(*                                                                         *)
(* A step is one access to what processors share.  A broadcast runs in a   *)
(* signal handler: what it interrupts waits for its end.                   *)
(***************************************************************************)
EXTENDS Integers, FiniteSets

CONSTANTS
  numberOfProcs,
  Relayers,      \* the processors that broadcast heartbeats
  CCProcs,       \* the processors that run concurrent collections
  Loops,         \* those whose program polls the limit and does not allocate
  Invalid        \* INVALID_PROCESSOR_NUMBER

Processors == 0 .. numberOfProcs - 1

TerminationAssumption ==
  /\ numberOfProcs \in Nat \ {0, 1}   \* one processor returns at once
  /\ Relayers \subseteq Processors
  /\ CCProcs \subseteq Processors
  /\ Loops \subseteq Processors
  /\ Invalid \notin Processors

VARIABLES
  terminationLeader,
  terminationStatus, \* 0 exited, 1 may exit, 1 + k: k processors signal it
  ccTarget,          \* currentCCTargetHH is set
  limit,             \* "set"; "zero": the next check enters the runtime;
                     \* "signal": so, and a signal is pending
  lock,              \* the holder of a user's spin lock
  pc,                \* where each processor is
  next,              \* the leader's loop over the processors
  relay              \* each processor's broadcast

terminationVars ==
  <<terminationLeader, terminationStatus, ccTarget, limit, lock, pc, next, relay>>

NoRelay == [at |-> "idle", to |-> 0, status |-> 0]

TerminationInit ==
  /\ terminationLeader = Invalid
  /\ terminationStatus = [p \in Processors |-> 1]
  /\ ccTarget = [p \in Processors |-> FALSE]
  /\ limit = [p \in Processors |-> "set"]
  /\ lock = Invalid
  /\ pc = [p \in Processors |-> "program"]
  /\ next = 0
  /\ relay = [p \in Processors |-> NoRelay]

Requested == terminationLeader # Invalid

IsAt(p, where) == pc[p] = where /\ relay[p].at = "idle"
MoveTo(p, where) == pc' = [pc EXCEPT ![p] = where]

-------------------------------------------------------------------------------
(* Where a processor notices the request *)

(* enter: the check, and beginAtomic, which takes back a limit of zero (a  *)
(* pending signal is handled).                                             *)
Enter(p) ==
  /\ IsAt(p, "program")
  /\ MoveTo(p, IF Requested THEN "terminate" ELSE "entered")
  /\ UNCHANGED <<terminationLeader, terminationStatus, ccTarget, limit, lock, next, relay>>

BeginAtomic(p) ==
  /\ IsAt(p, "entered")
  /\ limit' = [limit EXCEPT ![p] = "set"]
  /\ MoveTo(p, "runtime")
  /\ UNCHANGED <<terminationLeader, terminationStatus, ccTarget, lock, next, relay>>

Leave(p) ==
  /\ IsAt(p, "runtime")
  /\ MoveTo(p, "program")
  /\ UNCHANGED <<terminationLeader, terminationStatus, ccTarget, limit, lock, next, relay>>

(* The scheduler switched to the thread that collects.                     *)
StartCC(p) ==
  /\ p \in CCProcs
  /\ IsAt(p, "runtime")
  /\ ccTarget' = [ccTarget EXCEPT ![p] = TRUE]
  /\ MoveTo(p, "collecting")
  /\ UNCHANGED <<terminationLeader, terminationStatus, limit, lock, next, relay>>

FinishCC(p) ==
  /\ IsAt(p, "collecting")
  /\ ccTarget' = [ccTarget EXCEPT ![p] = FALSE]
  /\ MoveTo(p, "program")
  /\ UNCHANGED <<terminationLeader, terminationStatus, limit, lock, next, relay>>

(* Parallel_lockTake; the waits of switchToThread and joinIntoParent poll  *)
(* in the same way.                                                        *)
LockTake(p) ==
  /\ IsAt(p, "program") \/ IsAt(p, "locking")
  /\ IF lock = Invalid
     THEN lock' = p /\ MoveTo(p, "program")
     ELSE lock # p /\ MoveTo(p, "locking") /\ UNCHANGED lock
  /\ UNCHANGED <<terminationLeader, terminationStatus, ccTarget, limit, next, relay>>

BugNoPoll(p) == FALSE
MayTerminateThread(p) == Requested

Poll(p) ==
  /\ IsAt(p, "locking")
  /\ MayTerminateThread(p)
  /\ MoveTo(p, "terminate")
  /\ UNCHANGED <<terminationLeader, terminationStatus, ccTarget, limit, lock, next, relay>>

LockRelease(p) ==
  /\ IsAt(p, "program")
  /\ lock = p
  /\ lock' = Invalid
  /\ UNCHANGED <<terminationLeader, terminationStatus, ccTarget, limit, pc, next, relay>>

(* GC_TerminateThread: the thread exits when nobody sends it a signal.     *)
BugExitWhileSignalled(status) == 0
AfterExit(status) == IF status = 1 THEN 0 ELSE status

TerminateThread(p) ==
  /\ IsAt(p, "terminate")
  /\ AfterExit(terminationStatus[p]) = 0
  /\ terminationStatus' = [terminationStatus EXCEPT ![p] = 0]
  /\ MoveTo(p, "exited")
  /\ UNCHANGED <<terminationLeader, ccTarget, limit, lock, next, relay>>

-------------------------------------------------------------------------------
(* GC_TryToTerminate *)

WinsRace(p) == terminationLeader = Invalid

TryToTerminate(p) ==
  /\ IsAt(p, "program")
  /\ IF WinsRace(p)
     THEN terminationLeader' = p /\ next' = 0 /\ MoveTo(p, "tell")
     ELSE MoveTo(p, "terminate") /\ UNCHANGED <<terminationLeader, next>>
  /\ UNCHANGED <<terminationStatus, ccTarget, limit, lock, relay>>

(* Every other processor's limit is set to zero.                           *)
Tell(p) ==
  /\ IsAt(p, "tell")
  /\ IF next < numberOfProcs
     THEN /\ limit' = [limit EXCEPT ![next] =
                         IF next = p \/ @ = "signal" THEN @ ELSE "zero"]
          /\ next' = next + 1
          /\ UNCHANGED pc
     ELSE next' = 0 /\ MoveTo(p, "join") /\ UNCHANGED limit
  /\ UNCHANGED <<terminationLeader, terminationStatus, ccTarget, lock, relay>>

(* A processor in a collection is not waited for.                          *)
IsJoined(p, other) == other # p /\ ~ccTarget[other]

Join(p) ==
  /\ IsAt(p, "join")
  /\ IF next < numberOfProcs
     THEN /\ IF IsJoined(p, next)
             THEN MoveTo(p, "wait") /\ UNCHANGED next
             ELSE next' = next + 1 /\ UNCHANGED pc
     ELSE MoveTo(p, "halted") /\ UNCHANGED next
  /\ UNCHANGED <<terminationLeader, terminationStatus, ccTarget, limit, lock, relay>>

JoinReturns(p) ==
  /\ IsAt(p, "wait")
  /\ pc[next] = "exited"
  /\ next' = next + 1
  /\ MoveTo(p, "join")
  /\ UNCHANGED <<terminationLeader, terminationStatus, ccTarget, limit, lock, relay>>

-------------------------------------------------------------------------------
(* broadcastHeartbeat and relaySignalTo *)

RelayAt(p, where) == relay[p].at = where

(* In the handler of an alarm, whatever it interrupts, or in relayerLoop;  *)
(* once the end is requested the loop does nothing.                        *)
StartBroadcast(p) ==
  /\ p \in Relayers
  /\ RelayAt(p, "idle")
  /\ pc[p] \notin {"exited", "halted"}
  /\ ~Requested
  /\ relay' = [relay EXCEPT ![p] = [NoRelay EXCEPT !.at = "next"]]
  /\ UNCHANGED <<terminationLeader, terminationStatus, ccTarget, limit, lock, pc, next>>

NextTarget(p) ==
  /\ RelayAt(p, "next")
  /\ relay' = [relay EXCEPT ![p] =
       IF @.to = numberOfProcs \/ Requested THEN NoRelay
       ELSE IF @.to = p THEN [@ EXCEPT !.to = p + 1]
       ELSE [@ EXCEPT !.at = "load"]]
  /\ UNCHANGED <<terminationLeader, terminationStatus, ccTarget, limit, lock, pc, next>>

LoadStatus(p) ==
  /\ RelayAt(p, "load")
  /\ relay' = [relay EXCEPT ![p].at = "check", ![p].status = terminationStatus[relay[p].to]]
  /\ UNCHANGED <<terminationLeader, terminationStatus, ccTarget, limit, lock, pc, next>>

HasNotExited(status) == status > 0

CheckRequest(p) ==
  /\ RelayAt(p, "check")
  /\ relay' = [relay EXCEPT ![p] =
       IF HasNotExited(@.status) /\ ~Requested THEN [@ EXCEPT !.at = "cas"]
       ELSE [@ EXCEPT !.at = "next", !.to = relay[p].to + 1]]
  /\ UNCHANGED <<terminationLeader, terminationStatus, ccTarget, limit, lock, pc, next>>

PreventExit(p) ==
  LET q == relay[p].to IN
  /\ RelayAt(p, "cas")
  /\ IF terminationStatus[q] = relay[p].status
     THEN /\ terminationStatus' = [terminationStatus EXCEPT ![q] = @ + 1]
          /\ relay' = [relay EXCEPT ![p].at = "kill"]
     ELSE /\ relay' = [relay EXCEPT ![p].at = "load"]
          /\ UNCHANGED terminationStatus
  /\ UNCHANGED <<terminationLeader, ccTarget, limit, lock, pc, next>>

(* pthread_kill; GC_handler of the target makes its next check fail.       *)
Kill(p) ==
  /\ RelayAt(p, "kill")
  /\ limit' = [limit EXCEPT ![relay[p].to] = "signal"]
  /\ relay' = [relay EXCEPT ![p].at = "sub"]
  /\ UNCHANGED <<terminationLeader, terminationStatus, ccTarget, lock, pc, next>>

LessOne(status) == status - 1

AllowExit(p) ==
  LET q == relay[p].to IN
  /\ RelayAt(p, "sub")
  /\ terminationStatus' = [terminationStatus EXCEPT ![q] = LessOne(@)]
  /\ relay' = [relay EXCEPT ![p].at = "next", ![p].to = q + 1]
  /\ UNCHANGED <<terminationLeader, ccTarget, limit, lock, pc, next>>

-------------------------------------------------------------------------------

Relay(p) ==
  \/ NextTarget(p) \/ LoadStatus(p) \/ CheckRequest(p)
  \/ PreventExit(p) \/ Kill(p) \/ AllowExit(p)

(* What a processor does in the runtime takes a finite time.               *)
Runtime(p) ==
  \/ BeginAtomic(p) \/ Leave(p) \/ StartCC(p) \/ FinishCC(p)
  \/ TerminateThread(p) \/ Tell(p) \/ Join(p) \/ JoinReturns(p)

Program(p) ==
  \/ Enter(p) \/ LockTake(p) \/ Poll(p) \/ LockRelease(p) \/ TryToTerminate(p)

(* exit ends the threads that were not joined.                             *)
ProcessExit == (\E p \in Processors : pc[p] = "halted") /\ UNCHANGED terminationVars

TerminationNext == ProcessExit \/ \E p \in Processors :
  Relay(p) \/ StartBroadcast(p) \/ Runtime(p) \/ Program(p)

(* A program keeps entering the runtime, polls while it waits and enters   *)
(* when its limit is zero; some programs do only the last two.             *)
TerminationFairness == \A p \in Processors :
  /\ WF_terminationVars(Relay(p))
  /\ WF_terminationVars(Runtime(p))
  /\ WF_terminationVars(Poll(p) \/ ((p \notin Loops \/ limit[p] # "set") /\ Enter(p)))

TerminationSpec == TerminationInit /\ [][TerminationNext]_terminationVars /\ TerminationFairness

-------------------------------------------------------------------------------
(* Properties *)

TerminationTypeOK ==
  /\ terminationLeader \in Processors \union {Invalid}
  /\ terminationStatus \in [Processors -> 0 .. numberOfProcs]
  /\ ccTarget \in [Processors -> BOOLEAN]
  /\ limit \in [Processors -> {"set", "zero", "signal"}]
  /\ lock \in Processors \union {Invalid}
  /\ pc \in [Processors -> {"program", "entered", "runtime", "collecting", "locking",
       "terminate", "exited", "tell", "join", "wait", "halted"}]
  /\ next \in 0 .. numberOfProcs
  /\ relay \in [Processors -> [at : {"idle", "next", "load", "check", "cas", "kill", "sub"},
       to : 0 .. numberOfProcs, status : 0 .. numberOfProcs]]

(* The assertions around pthread_kill: a signal is sent only to a thread   *)
(* that has not exited and cannot exit before the sender is done, however  *)
(* many processors signal it while it is about to exit.                    *)
NoSignalAfterExit ==
  \A p \in Processors : relay[p].at \in {"kill", "sub"} =>
    /\ terminationStatus[relay[p].to] >= 2
    /\ pc[relay[p].to] # "exited"

(* One processor ends the program: when its GC_TryToTerminate returns, no  *)
(* other can be asking, waiting or ending it too.                          *)
Ends(p) == pc[p] \in {"tell", "join", "wait", "halted"}
OneLeader == \A p, q \in Processors : Ends(p) /\ Ends(q) => p = q

(* Both; they are about the same race, of those who ask for the end with   *)
(* those who still send signals.                                           *)
SignalledIsAlive == NoSignalAfterExit /\ OneLeader

(* A request ends the program, whatever the other processors wait for,     *)
(* signal or collect: the leader's joins all return.                       *)
HaltReturns == Requested ~> \E p \in Processors : pc[p] = "halted"

===============================================================================
