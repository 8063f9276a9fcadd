-------------------------------- MODULE Port --------------------------------
(***************************************************************************)
(* The processor port of the kernel (Src/osPort.c): the interrupt masks of *)
(* the one Cortex-M core and the blocking-fault trap.                      *)
(*                                                                         *)
(* The masks are processor registers, not task context: a context switch   *)
(* neither saves nor restores them.  A section between osPortEnterCritical *)
(* and osPortExitCritical runs with PRIMASK set and its first instruction  *)
(* to its last is one step of the model; a mask the application sets       *)
(* around its own code stays visible in "masks".                           *)
(***************************************************************************)
EXTENDS Naturals

VARIABLES masks,  \* which of PRIMASK, BASEPRI and FAULTMASK are nonzero
          fault   \* osLastBlockingFault once osPortBlockingFault was entered

MaskRegisters == {"PRIMASK", "BASEPRI", "FAULTMASK"}

ErrorBits == MaskRegisters \cup {"ISR", "NO_TASK", "WAIT_QUEUE", "MUTEX_RECURSION"}

FaultOperations ==
  {"DELAY", "SEMAPHORE", "COUNT_SEMAPHORE", "MUTEX_TAKE", "MUTEX_GIVE",
   "WAIT_ENQUEUE", "WAIT_DEQUEUE"}

NoFault == [errors |-> {}, operation |-> "NONE"]

portVars == <<masks, fault>>

PortTypeOK ==
  /\ masks \subseteq MaskRegisters
  /\ fault \in [errors : SUBSET ErrorBits, operation : FaultOperations \cup {"NONE"}]

PortInit ==
  /\ masks = {}
  /\ fault = NoFault

\* No caller has entered the infinite loop of osPortBlockingFault.
Alive == fault = NoFault

(***************************************************************************)
(* osPortBlockingFault never returns: it masks interrupts, records the     *)
(* reason and loops.  After this step only NonMaskable events could run.   *)
(***************************************************************************)
osPortBlockingFault(errors, operation) ==
  /\ masks' = masks \cup {"PRIMASK"}
  /\ fault' = [errors |-> errors, operation |-> operation]

\* An interrupt at the lowest priority (PendSV, SysTick) needs every mask clear;
\* TIM2, one level above, runs under a BASEPRI that masks only the lowest level.
LowestPriorityEnabled == masks = {}
InterruptsEnabled == masks \cap {"PRIMASK", "FAULTMASK"} = {}
=============================================================================
