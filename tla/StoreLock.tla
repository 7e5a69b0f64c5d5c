------------------------------ MODULE StoreLock ------------------------------
(***************************************************************************)
(* update of one key by the filesystem driver                               *)
(*   apps/web/src/lib/prototype-store/store.ts, withKeyLock and update      *)
(* The callers of one process wait for each other in a promise chain; the   *)
(* one at its head takes an O_EXCL lock file that the other processes see.  *)
(* A lock file whose age passes LOCK_STALE_MS is taken for a dead holder's  *)
(* and removed.  Every filesystem call is a step.                           *)
(*                                                                         *)
(* Processes die; opening the lock file, writing it, reading, deciding and  *)
(* storing the value may each fail.  A lock file nobody is going to remove  *)
(* stays when its holder's process has died, or when the holder has failed  *)
(* to write it after creating it and has thrown.                            *)
(*                                                                         *)
(* Time is abstracted: only such a file grows old, so a live holder is      *)
(* taken to need less than LOCK_STALE_MS; a waiter may give up whenever it  *)
(* finds the lock taken (its deadline is twice LOCK_STALE_MS).  A process   *)
(* that dies stays dead.  unlink and stat of a file that is there succeed.  *)
(***************************************************************************)
EXTENDS Naturals, FiniteSets, Sequences

CONSTANTS
  Procs,      \* processes on the same filesystem
  Callers,    \* one per call of update on the key
  Home,       \* the process of each caller
  Mortal,     \* processes that may die
  Capacity,   \* see AtomicUpdate
  Nobody

ASSUME HomeAssumption == Home \in [Callers -> Procs]
ASSUME MortalAssumption == Mortal \subseteq Procs
ASSUME CapacityAssumption == Capacity \in Nat
ASSUME NobodyAssumption == Nobody \notin Callers

VARIABLES
  value,      \* the key's JSON file
  lock,       \* whose lock file exists, or Nobody
  old,        \* the lock file is older than LOCK_STALE_MS
  chain,      \* inProcessChains: each process's callers, in turn
  pc, copy,   \* where each caller is, and the value it read
  outcome,    \* the result each caller has so far
  alive,
  mistaken    \* ghost: a lock file was removed that was not the old one

lockVars == <<value, lock, old, chain, pc, copy, outcome, alive, mistaken>>

Promise == INSTANCE AtomicUpdate WITH
  Callers <- Callers, Capacity <- Capacity,
  value <- value, outcome <- outcome

Holding == {"filling", "reading", "writing", "unlocking"}
Steps == {"idle", "opening", "stat", "breaking", "done", "threw"} \union Holding

TypeOK ==
  /\ value \subseteq Callers
  /\ lock \in Callers \union {Nobody}
  /\ old \in BOOLEAN
  /\ chain \in [Procs -> Seq(Callers)]
  /\ pc \in [Callers -> Steps]
  /\ copy \in [Callers -> SUBSET Callers]
  /\ outcome \in [Callers -> {"none", "written", "unchanged"}]
  /\ alive \in [Procs -> BOOLEAN]
  /\ mistaken \in BOOLEAN

LockInit ==
  /\ value = {}
  /\ lock = Nobody /\ old = FALSE
  /\ chain = [p \in Procs |-> <<>>]
  /\ pc = [c \in Callers |-> "idle"]
  /\ copy = [c \in Callers |-> {}]
  /\ outcome = [c \in Callers |-> "none"]
  /\ alive = [p \in Procs |-> TRUE]
  /\ mistaken = FALSE

----------------------------------------------------------------------------
Runs(c, step) == pc[c] = step /\ alive[Home[c]]
Goes(c, step) == pc' = [pc EXCEPT ![c] = step]
MyTurn(c) == chain[Home[c]] # <<>> /\ Head(chain[Home[c]]) = c

(* release: the next caller of the process wakes.  The entry of the map is  *)
(* never deleted (the promise it is compared with is a new one), which      *)
(* changes nothing here: an ended chain and no chain let a caller pass.     *)
Released(c) == [chain EXCEPT ![Home[c]] = Tail(@)]

Enter(c) ==
  /\ Runs(c, "idle")
  /\ Goes(c, "opening")
  /\ chain' = [chain EXCEPT ![Home[c]] = Append(@, c)]
  /\ UNCHANGED <<value, lock, old, copy, outcome, alive, mistaken>>

CreateShared(c) ==     \* mutant: flag "w", an existing lock file is taken over
  /\ Runs(c, "opening") /\ MyTurn(c)
  /\ lock' = c /\ old' = FALSE
  /\ Goes(c, "filling")
  /\ UNCHANGED <<value, chain, copy, outcome, alive, mistaken>>

(* open(lockPath, "wx") creates the file, or answers EEXIST.                *)
Create(c) ==
  /\ Runs(c, "opening") /\ MyTurn(c)
  /\ lock = Nobody
  /\ lock' = c /\ old' = FALSE
  /\ Goes(c, "filling")
  /\ UNCHANGED <<value, chain, copy, outcome, alive, mistaken>>

(* The process id is written into the file and the file is closed.          *)
WritePid(c) ==
  /\ Runs(c, "filling")
  /\ Goes(c, "reading")
  /\ UNCHANGED <<value, lock, old, chain, copy, outcome, alive, mistaken>>

(* An error of open, writeFile or close other than EEXIST is thrown past    *)
(* the finally that unlinks: a file that was created stays.                 *)
LockFails(c) ==
  /\ \/ Runs(c, "opening") /\ MyTurn(c) /\ lock = Nobody
     \/ Runs(c, "filling")
  /\ Goes(c, "threw")
  /\ chain' = Released(c)
  /\ UNCHANGED <<value, lock, old, copy, outcome, alive, mistaken>>

Exists(c) ==
  /\ Runs(c, "opening") /\ MyTurn(c)
  /\ lock # Nobody
  /\ Goes(c, "stat")
  /\ UNCHANGED <<value, lock, old, chain, copy, outcome, alive, mistaken>>

StatNeverOld(c) ==     \* mutant: the age of the lock file is not looked at
  /\ Runs(c, "stat")
  /\ Goes(c, "opening")
  /\ UNCHANGED <<value, lock, old, chain, copy, outcome, alive, mistaken>>

(* stat: gone (ENOENT) and fresh both lead to another open, the second      *)
(* after a pause; an old file is unlinked first.                            *)
Stat(c) ==
  /\ Runs(c, "stat")
  /\ Goes(c, IF lock # Nobody /\ old THEN "breaking" ELSE "opening")
  /\ UNCHANGED <<value, lock, old, chain, copy, outcome, alive, mistaken>>

GiveUp(c) ==
  /\ Runs(c, "stat")
  /\ lock # Nobody /\ ~old
  /\ Goes(c, "threw")
  /\ chain' = Released(c)
  /\ UNCHANGED <<value, lock, old, copy, outcome, alive, mistaken>>

(* unlink removes whatever lock file is there by now, which need not be the *)
(* one that was found old.                                                  *)
Break(c) ==
  /\ Runs(c, "breaking")
  /\ lock' = Nobody /\ old' = FALSE
  /\ mistaken' = (mistaken \/ (lock # Nobody /\ ~old))
  /\ Goes(c, "opening")
  /\ UNCHANGED <<value, chain, copy, outcome, alive>>

ReadUnlocked(c) ==     \* mutant: the lock is given back once the file is read
  /\ Runs(c, "reading")
  /\ copy' = [copy EXCEPT ![c] = value]
  /\ IF Promise!Admits(value)
     THEN Goes(c, "writing") /\ UNCHANGED outcome
     ELSE Goes(c, "unlocking")
          /\ outcome' = [outcome EXCEPT ![c] = "unchanged"]
  /\ lock' = Nobody
  /\ UNCHANGED <<value, old, chain, alive, mistaken>>

(* Reads the file and decides; null leaves it as it is. *)
Read(c) ==
  /\ Runs(c, "reading")
  /\ copy' = [copy EXCEPT ![c] = value]
  /\ IF Promise!Admits(value)
     THEN Goes(c, "writing") /\ UNCHANGED outcome
     ELSE Goes(c, "unlocking")
          /\ outcome' = [outcome EXCEPT ![c] = "unchanged"]
  /\ UNCHANGED <<value, lock, old, chain, alive, mistaken>>

(* atomicWrite: the rename of the written temporary file. *)
Rename(c) ==
  /\ Runs(c, "writing")
  /\ value' = copy[c] \union {c}
  /\ outcome' = [outcome EXCEPT ![c] = "written"]
  /\ Goes(c, "unlocking")
  /\ UNCHANGED <<lock, old, chain, copy, alive, mistaken>>

(* The file cannot be read or parsed, decide throws, or the temporary file  *)
(* is not written: the lock is given back and the error passed on.          *)
WorkFails(c) ==
  /\ Runs(c, "reading") \/ Runs(c, "writing")
  /\ Goes(c, "unlocking")
  /\ UNCHANGED <<value, lock, old, chain, copy, outcome, alive, mistaken>>

Unlink(c) ==
  /\ Runs(c, "unlocking")
  /\ lock' = Nobody /\ old' = FALSE
  /\ chain' = Released(c)
  /\ Goes(c, IF outcome[c] = "none" THEN "threw" ELSE "done")
  /\ UNCHANGED <<value, copy, outcome, alive, mistaken>>

(* Nobody is going to remove this lock file any more. *)
Abandoned == lock # Nobody /\ (~alive[Home[lock]] \/ pc[lock] = "threw")

Age ==
  /\ Abandoned /\ ~old
  /\ old' = TRUE
  /\ UNCHANGED <<value, lock, chain, pc, copy, outcome, alive, mistaken>>

Die(p) ==
  /\ p \in Mortal
  /\ alive[p]
  /\ alive' = [alive EXCEPT ![p] = FALSE]
  /\ UNCHANGED <<value, lock, old, chain, pc, copy, outcome, mistaken>>

Works(c) ==
  \/ Create(c) \/ WritePid(c) \/ LockFails(c) \/ Exists(c) \/ Stat(c) \/ Break(c)
  \/ Read(c) \/ Rename(c) \/ WorkFails(c) \/ Unlink(c)

LockNext ==
  \/ \E c \in Callers : Enter(c) \/ GiveUp(c) \/ Works(c)
  \/ Age
  \/ \E p \in Procs : Die(p)

LockSpec == LockInit /\ [][LockNext]_lockVars
FairLockSpec == LockSpec /\ WF_lockVars(Age) /\ \A c \in Callers : WF_lockVars(Works(c))

----------------------------------------------------------------------------
(* Two live callers are never both between taking the lock and giving it    *)
(* back (withKeyLock 80-127): never in one process, and in two only after   *)
(* a lock file was unlinked that was not the one found old (104-107).       *)
AtMostOneHolder ==
  \A c, d \in Callers :
    /\ pc[c] \in Holding /\ alive[Home[c]]
    /\ pc[d] \in Holding /\ alive[Home[d]]
    /\ c # d
    => mistaken /\ Home[c] # Home[d]

(* Up to such an unlink, seen from outside, every call decides once on the  *)
(* value as it is and no decision is lost, whatever dies or fails.          *)
AppliesOneAtATime == Promise!Init /\ [][Promise!Next \/ mistaken]_(Promise!vars)

(* The promise as it is made: "Exactly one caller's decision is applied per *)
(* key at a time", the prototype driver included (store/types.ts 30-39).    *)
OneDecisionAtATime == Promise!Spec

(* A call of a process that lives is answered or fails; a lock file nobody  *)
(* will remove is got over (store.ts 103-107).                              *)
EveryCallEnds ==
  \A c \in Callers :
    pc[c] = "opening" ~> pc[c] \in {"done", "threw"} \/ ~alive[Home[c]]

----------------------------------------------------------------------------
(* Why it works: the lock file of a live holder is there and not old, so    *)
(* that only a caller that has found an older one can remove it, and what   *)
(* a holder has read is what is stored.                                     *)
HolderInv(c) ==
  pc[c] \in Holding /\ alive[Home[c]] =>
    /\ lock = c
    /\ pc[c] = "writing" => copy[c] = value /\ Promise!Admits(value)

CallerInv(c) ==
  /\ pc[c] \in {"stat", "breaking"} \union Holding => MyTurn(c)
  /\ outcome[c] # "none" => pc[c] \in {"unlocking", "done"}

LockInv ==
  /\ TypeOK
  /\ old => Abandoned
  /\ \A c \in Callers : CallerInv(c)
  /\ ~mistaken => \A c \in Callers : HolderInv(c)
=============================================================================
