---------------------------- MODULE AsyncioLock ----------------------------
(***************************************************************************)
(* asyncio.Lock as the modules of the bot use it.  A lock is the sequence  *)
(* of the tasks that want it: the first holds it, the others wait in the   *)
(* order they asked.  A task asks with Append and releases with Tail; a    *)
(* task that is cancelled leaves from wherever it is.                      *)
(***************************************************************************)
EXTENDS Integers, SequencesExt

\* The lock without its first place of task t.
Leave(lock, t) == IF t \in ToSet(lock)
                  THEN RemoveAt(lock, CHOOSE i \in DOMAIN lock : lock[i] = t)
                  ELSE lock

\* Task t holds the lock.
Holds(lock, t) == lock # <<>> /\ Head(lock) = t
=============================================================================
