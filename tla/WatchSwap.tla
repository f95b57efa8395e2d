----------------------------- MODULE WatchSwap -----------------------------
(***************************************************************************)
(* The single-slot broadcast channel of src/swap_rust.rs: an atomic        *)
(* pointer (ArcSwapOption) to the last published value, and handles that   *)
(* cache the pointer they saw last.  A change is detected by comparing     *)
(* pointers, not contents; a handle that wants to wait for one uses a      *)
(* mutex that protects no data and a condition variable.                   *)
(*                                                                         *)
(* Values live in reference-counted allocations (Arc): an address may be   *)
(* given to a new value as soon as nothing refers to the old one.          *)
(* heap[a] is the publication number of the value stored at address a.     *)
(*                                                                         *)
(* A handle runs one call at a time (get_changed and wait_for_change       *)
(* borrow it mutably; concurrent publishers use clones).  The steps of a   *)
(* call are separated where another thread can observe the difference:     *)
(*                                                                         *)
(*   swap             idle -> swapped -> notifying -> releasing -> idle    *)
(*   wait_for_change  idle -> locking -> checking -> releasing -> idle     *)
(*                            ^            |                               *)
(*                            waiting <- parking                           *)
(*                                                                         *)
(* "parking" is the handle swap's comment calls "almost" waiting: it holds *)
(* the lock and has not entered the condition variable yet.                *)
(***************************************************************************)
EXTENDS Naturals

CONSTANTS
  Handles,     \* handles that may ever exist
  Addrs,       \* heap addresses
  Null,        \* the null pointer: no value
  Free,        \* owner of the mutex when it is unlocked
  MaxPublish   \* bound: number of values ever published

ASSUME WatchSwapAssumption ==
  /\ Handles # {}
  /\ Addrs # {}
  /\ Null \notin Addrs
  /\ Free \notin Handles
  /\ MaxPublish \in Nat \ {0}

VARIABLES
  inner,      \* Shared.inner, the pointer every handle reads
  mutex,      \* owner of Shared.wait_mutex
  cached,     \* cached[h]: the pointer of WatchSwap.cached
  old,        \* old[h]: the pointer h's swap took out and still owns
  pc,         \* pc[h]: where h is in its current call
  heap,       \* heap[a]: publication stored at address a
  published   \* number of values published so far

vars == <<inner, mutex, cached, old, pc, heap, published>>

Pointers == Addrs \cup {Null}

Labels == {"none", "idle", "swapped", "notifying", "releasing",
           "locking", "checking", "parking", "waiting"}

TypeOK ==
  /\ inner \in Pointers
  /\ mutex \in Handles \cup {Free}
  /\ cached \in [Handles -> Pointers]
  /\ old \in [Handles -> Pointers]
  /\ pc \in [Handles -> Labels]
  /\ heap \in [Addrs -> 0..MaxPublish]
  /\ published \in 0..MaxPublish

Goto(h, label) == pc' = [pc EXCEPT ![h] = label]

-----------------------------------------------------------------------------
(* Mutant of Referenced: the cache is a plain pointer, not an Arc.         *)
ReferencedWithoutCache == {inner} \cup {old[h] : h \in Handles}

(* A reference count of zero frees an allocation: the pointers that keep   *)
(* one alive are the shared one, those the handles cache, and those taken  *)
(* out by a swap that has not returned yet.                                *)
Referenced ==
  {inner} \cup {cached[h] : h \in Handles} \cup {old[h] : h \in Handles}

Unused == Addrs \ Referenced

-----------------------------------------------------------------------------
(* empty(): one handle and no value.  init(val): the creating handle has   *)
(* the first value in its cache already.                                   *)
Init ==
  /\ mutex = Free
  /\ old = [h \in Handles |-> Null]
  /\ \E h0 \in Handles :
       /\ pc = [h \in Handles |-> IF h = h0 THEN "idle" ELSE "none"]
       /\ \/ /\ inner = Null
             /\ published = 0
             /\ heap = [a \in Addrs |-> 0]
          \/ \E a \in Addrs :
               /\ inner = a
               /\ published = 1
               /\ heap = [b \in Addrs |-> IF b = a THEN 1 ELSE 0]
       /\ cached = [h \in Handles |-> IF h = h0 THEN inner ELSE Null]

-----------------------------------------------------------------------------
(* swap(Some(val)) and swap(None): the new value is in place before        *)
(* wake_up_threads is entered, and without the mutex.                      *)
SwapSome(h) ==
  /\ pc[h] = "idle"
  /\ published < MaxPublish
  /\ published' = published + 1
  /\ \E a \in Unused :
       /\ heap' = [heap EXCEPT ![a] = published']
       /\ inner' = a
  /\ old' = [old EXCEPT ![h] = inner]
  /\ Goto(h, "swapped")
  /\ UNCHANGED <<mutex, cached>>

SwapNone(h) ==
  /\ pc[h] = "idle"
  /\ inner' = Null
  /\ old' = [old EXCEPT ![h] = inner]
  /\ Goto(h, "swapped")
  /\ UNCHANGED <<mutex, cached, heap, published>>

(* Mutant of LockToNotify: notifying without the mutex.                    *)
NotifyUnlocked(h) ==
  /\ pc[h] = "swapped"
  /\ Goto(h, "notifying")
  /\ UNCHANGED <<inner, mutex, cached, old, heap, published>>

(* wake_up_threads takes the mutex for no other reason than to let a       *)
(* handle that is about to wait finish entering the condition variable.    *)
LockToNotify(h) ==
  /\ pc[h] = "swapped"
  /\ mutex = Free
  /\ mutex' = h
  /\ Goto(h, "notifying")
  /\ UNCHANGED <<inner, cached, old, heap, published>>

(* Mutant of NotifyAll: notify_one.                                        *)
NotifyOne(h) ==
  /\ pc[h] = "notifying"
  /\ IF \E g \in Handles : pc[g] = "waiting"
     THEN \E g \in Handles :
            /\ pc[g] = "waiting"
            /\ pc' = [pc EXCEPT ![h] = "releasing", ![g] = "locking"]
     ELSE Goto(h, "releasing")
  /\ UNCHANGED <<inner, mutex, cached, old, heap, published>>

(* notify_all: every waiter has to take the mutex again before it goes on. *)
NotifyAll(h) ==
  /\ pc[h] = "notifying"
  /\ pc' = [g \in Handles |-> IF g = h THEN "releasing"
                             ELSE IF pc[g] = "waiting" THEN "locking" ELSE pc[g]]
  /\ UNCHANGED <<inner, mutex, cached, old, heap, published>>

(* The guard goes out of scope, in wake_up_threads as in wait_for_change.  *)
(* What swap returns is dropped here: no caller keeps it.                  *)
Release(h) ==
  /\ pc[h] = "releasing"
  /\ mutex' = Free
  /\ old' = [old EXCEPT ![h] = Null]
  /\ Goto(h, "idle")
  /\ UNCHANGED <<inner, cached, heap, published>>

-----------------------------------------------------------------------------
(* get_changed_inner: cached and loaded pointer are compared, and the      *)
(* loaded one replaces the cached one if they differ.                      *)
Changed(h) == cached[h] # inner

GetChanged(h) ==
  /\ pc[h] = "idle"
  /\ cached' = [cached EXCEPT ![h] = IF Changed(h) THEN inner ELSE @]
  /\ UNCHANGED <<inner, mutex, old, pc, heap, published>>

(* wait_for_change *)
WaitForChange(h) ==
  /\ pc[h] = "idle"
  /\ Goto(h, "locking")
  /\ UNCHANGED <<inner, mutex, cached, old, heap, published>>

LockToCheck(h) ==
  /\ pc[h] = "locking"
  /\ mutex = Free
  /\ mutex' = h
  /\ Goto(h, "checking")
  /\ UNCHANGED <<inner, cached, old, heap, published>>

FoundChange(h) ==
  /\ pc[h] = "checking"
  /\ Changed(h)
  /\ cached' = [cached EXCEPT ![h] = inner]
  /\ Goto(h, "releasing")
  /\ UNCHANGED <<inner, mutex, old, heap, published>>

FoundNoChange(h) ==
  /\ pc[h] = "checking"
  /\ ~Changed(h)
  /\ Goto(h, "parking")
  /\ UNCHANGED <<inner, mutex, cached, old, heap, published>>

(* Mutant of CondvarWait: waiting without giving the mutex up.             *)
WaitHoldingTheMutex(h) ==
  /\ pc[h] = "parking"
  /\ Goto(h, "waiting")
  /\ UNCHANGED <<inner, mutex, cached, old, heap, published>>

(* Mutant of CondvarWait: spinning inside the mutex.                       *)
SpinHoldingTheMutex(h) ==
  /\ pc[h] = "parking"
  /\ Goto(h, "checking")
  /\ UNCHANGED <<inner, mutex, cached, old, heap, published>>

(* Condvar::wait gives the mutex up and starts waiting in one step.        *)
CondvarWait(h) ==
  /\ pc[h] = "parking"
  /\ mutex' = Free
  /\ Goto(h, "waiting")
  /\ UNCHANGED <<inner, cached, old, heap, published>>

(* Mutant of SpuriousWake: wait_for_change trusts a wake-up, without a     *)
(* loop around the condition variable.                                     *)
ReturnOnAnyWake(h) ==
  /\ pc[h] = "waiting"
  /\ mutex = Free
  /\ mutex' = h
  /\ Goto(h, "releasing")
  /\ UNCHANGED <<inner, cached, old, heap, published>>

(* Condvar::wait may return without a notification; it takes the mutex     *)
(* again before it does.                                                   *)
SpuriousWake(h) ==
  /\ pc[h] = "waiting"
  /\ Goto(h, "locking")
  /\ UNCHANGED <<inner, mutex, cached, old, heap, published>>

-----------------------------------------------------------------------------
(* Handles come and go: clone() copies the cached pointer with its         *)
(* reference, and a thread that ends drops its handle.  With the last      *)
(* handle the channel itself is gone, and there is nothing left to model.  *)
Clone(h, g) ==
  /\ pc[h] = "idle"
  /\ pc[g] = "none"
  /\ cached' = [cached EXCEPT ![g] = cached[h]]
  /\ Goto(g, "idle")
  /\ UNCHANGED <<inner, mutex, old, heap, published>>

Drop(h) ==
  /\ pc[h] = "idle"
  /\ \E g \in Handles \ {h} : pc[g] # "none"
  /\ cached' = [cached EXCEPT ![h] = Null]
  /\ Goto(h, "none")
  /\ UNCHANGED <<inner, mutex, old, heap, published>>

-----------------------------------------------------------------------------
Swap(h) == SwapSome(h) \/ SwapNone(h) \/ LockToNotify(h) \/ NotifyAll(h)

Wait(h) ==
  \/ WaitForChange(h) \/ LockToCheck(h)
  \/ FoundChange(h) \/ FoundNoChange(h)
  \/ CondvarWait(h) \/ SpuriousWake(h)

Next ==
  \/ \E h \in Handles : Swap(h) \/ Release(h) \/ GetChanged(h) \/ Wait(h) \/ Drop(h)
  \/ \E h, g \in Handles : Clone(h, g)

Spec == Init /\ [][Next]_vars

(* A thread inside a call keeps running, and a thread that competes for    *)
(* the mutex again and again gets it: the mutex is only ever held for a    *)
(* few instructions.  Nobody is obliged to start a call.                   *)
Fairness ==
  \A h \in Handles :
    /\ SF_vars(LockToNotify(h))
    /\ SF_vars(LockToCheck(h))
    /\ WF_vars(NotifyAll(h))
    /\ WF_vars(Release(h))
    /\ WF_vars(FoundChange(h) \/ FoundNoChange(h))
    /\ WF_vars(CondvarWait(h))

FairSpec == Spec /\ Fairness

-----------------------------------------------------------------------------
(* No lost wake-up: while a handle sleeps, or has decided to, although the *)
(* pointer differs from its cached one, some swap has yet to notify.  This *)
(* is what taking the mutex in wake_up_threads is for.                     *)
NoLostWakeup ==
  \A h \in Handles :
    /\ pc[h] \in {"parking", "waiting"}
    /\ Changed(h)
    => \E g \in Handles : pc[g] \in {"swapped", "notifying"}

(* Who is inside the mutex, and who owns references: a handle that does    *)
(* not exist owns none, and a swap gives its own back before it returns.   *)
Holding == {"notifying", "releasing", "checking", "parking"}

MutexOwned == \A h \in Handles : mutex = h <=> pc[h] \in Holding

ReferencesOwned ==
  \A h \in Handles :
    /\ cached[h] # Null => pc[h] # "none"
    /\ old[h] # Null => pc[h] \in {"swapped", "notifying", "releasing"}

(* Different pointers in use lead to different publications, and the       *)
(* shared one to the last.                                                 *)
PointersTellValuesApart ==
  /\ inner # Null => heap[inner] = published
  /\ \A p \in Referenced \ {Null} : heap[p] \in 1..published
  /\ \A p, q \in Referenced \ {Null} : heap[p] = heap[q] => p = q

(* The inductive invariant: what the properties above and the refinement   *)
(* below rest on.                                                          *)
SwapInvariant ==
  /\ TypeOK
  /\ MutexOwned
  /\ ReferencesOwned
  /\ PointersTellValuesApart
  /\ NoLostWakeup

(* Comparing pointers is enough: what a handle's cached pointer refers to  *)
(* changes only when the handle loads a new pointer, although addresses    *)
(* are reused, because the cached pointer keeps its allocation alive.      *)
CachedContentIsStable ==
  [][\A h \in Handles :
       cached[h] # Null /\ cached'[h] = cached[h]
         => heap'[cached[h]] = heap[cached[h]]]_vars

(* swap returns: a publisher is never held up forever by its readers.  The *)
(* publisher is the task that also reads the messages of kaspad.           *)
SwapReturns ==
  \A h \in Handles : pc[h] = "swapped" ~> pc[h] = "idle"

-----------------------------------------------------------------------------
(* WatchSwap implements WatchRegister: the register is the content of the  *)
(* shared pointer, a view the content of a cached one.                     *)
Content(p) == IF p = Null THEN 0 ELSE heap[p]

Register == INSTANCE WatchRegister WITH
  current <- Content(inner),
  live    <- {h \in Handles : pc[h] # "none"},
  view    <- [h \in Handles |-> Content(cached[h])],
  blocked <- {h \in Handles :
                pc[h] \in {"locking", "checking", "parking", "waiting"}}

ImplementsRegister == Register!SafeSpec

(* A handle that waits in wait_for_change while there is a change returns, *)
(* unless the slot is emptied again before the handle gets to look.        *)
WaiterReturns == Register!NobodyForgotten
=============================================================================
