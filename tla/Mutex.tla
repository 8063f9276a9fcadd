-------------------------------- MODULE Mutex --------------------------------
(***************************************************************************)
(* The non-recursive mutex with FIFO ownership handoff (Src/osMutex.c).    *)
(* Each operator is the critical section of the call; "errors" is the      *)
(* caller's context, captured before it.                                   *)
(***************************************************************************)
EXTENDS KernelWait

mutexVars == <<waitVars, state, pendSV>>

\* Mutant of MutexRefusal: no test for a recursive call.
MutexRefusalUntested(m, errors) == IF owner[m] = NULL THEN {} ELSE errors

\* The errors with which a Take leaves the section for osPortBlockingFault:
\* a recursive call, or a wait its caller may not enter.
MutexRefusal(m, errors) ==
  IF owner[m] = osKernelCurrentThreadIdentity THEN {"MUTEX_RECURSION"}
  ELSE IF owner[m] = NULL THEN {} ELSE errors

osMutexTake(m, errors) ==
  IF MutexRefusal(m, errors) # {}
  THEN UNCHANGED <<mutexVars, portVars>>
  ELSE IF owner[m] # NULL
  THEN /\ osKernelBlockCurrentOnMutex(m)
       /\ osKernelRequestContextSwitch(TRUE)
  ELSE IF waiters[m] # <<>>
  THEN /\ osPortBlockingFault({"WAIT_QUEUE"}, "MUTEX_TAKE")
       /\ UNCHANGED mutexVars
  ELSE /\ owner' = [owner EXCEPT ![m] = osKernelCurrentThreadIdentity]
       /\ UNCHANGED <<waiters, waitSem, waitMutex, state, pendSV, portVars>>

\* Give by anyone but the owner changes nothing and returns false.
osMutexGive(m) ==
  IF owner[m] # osKernelCurrentThreadIdentity
  THEN UNCHANGED <<mutexVars, portVars>>
  ELSE /\ osKernelReleaseMutex(m)
       /\ osKernelRequestContextSwitch(waiters[m] # <<>>)
=============================================================================
