--------------------------- MODULE WatchSwapProofs ---------------------------
(***************************************************************************)
(* Proofs about WatchSwap, for any set of handles, any heap and any bound  *)
(* on the number of publications.                                          *)
(*                                                                         *)
(* Everything follows from SwapInvariant.  Its parts lean on each other:   *)
(* that no wake-up is lost needs the mutex to have one owner (nobody is    *)
(* between looking and sleeping while a publisher notifies), and that a    *)
(* change is recognised by comparing pointers needs every pointer in use   *)
(* to have its own publication, which needs every pointer in use to be     *)
(* counted as a reference.                                                 *)
(***************************************************************************)
EXTENDS WatchSwap, TLAPS

USE DEF Goto

(* The invariant holds in the initial states.                              *)
LEMMA InitInvariant == Init => SwapInvariant
<1> SUFFICES ASSUME Init PROVE SwapInvariant
  OBVIOUS
<1> USE WatchSwapAssumption
<1>1. PICK h0 \in Handles :
        /\ pc = [h \in Handles |-> IF h = h0 THEN "idle" ELSE "none"]
        /\ \/ /\ inner = Null
              /\ published = 0
              /\ heap = [a \in Addrs |-> 0]
           \/ \E a \in Addrs :
                /\ inner = a
                /\ published = 1
                /\ heap = [b \in Addrs |-> IF b = a THEN 1 ELSE 0]
        /\ cached = [h \in Handles |-> IF h = h0 THEN inner ELSE Null]
  BY DEF Init
<1>2. TypeOK
  BY <1>1 DEF Init, TypeOK, Pointers, Labels
<1>3. MutexOwned
  BY <1>1 DEF Init, MutexOwned, Holding
<1>4. ReferencesOwned
  BY <1>1 DEF Init, ReferencesOwned
<1>5. Referenced \subseteq {inner, Null}
  BY <1>1 DEF Init, Referenced
<1>6. PointersTellValuesApart
  BY <1>1, <1>2, <1>5 DEF PointersTellValuesApart, TypeOK, Pointers
<1>7. NoLostWakeup
  BY <1>1 DEF NoLostWakeup
<1> QED
  BY <1>2, <1>3, <1>4, <1>6, <1>7 DEF SwapInvariant

(* The steps of a handle keep the types.                                   *)
LEMMA StepTypeOK == TypeOK /\ [Next]_vars => TypeOK'
<1> SUFFICES ASSUME TypeOK, [Next]_vars PROVE TypeOK'
  OBVIOUS
<1> USE WatchSwapAssumption DEF TypeOK, Pointers, Labels
<1>1. CASE UNCHANGED vars
  BY <1>1 DEF vars
<1>2. ASSUME NEW h \in Handles, Swap(h) PROVE TypeOK'
  <2>1. CASE SwapSome(h)
    BY <2>1 DEF SwapSome, Unused
  <2>2. CASE SwapNone(h)
    BY <2>2 DEF SwapNone
  <2>3. CASE LockToNotify(h)
    BY <2>3 DEF LockToNotify
  <2>4. CASE NotifyAll(h)
    BY <2>4 DEF NotifyAll
  <2> QED
    BY <1>2, <2>1, <2>2, <2>3, <2>4 DEF Swap
<1>3. ASSUME NEW h \in Handles, Wait(h) PROVE TypeOK'
  BY <1>3 DEF Wait, WaitForChange, LockToCheck, FoundChange, FoundNoChange,
              CondvarWait, SpuriousWake
<1>4. ASSUME NEW h \in Handles, Release(h) \/ GetChanged(h) \/ Drop(h) PROVE TypeOK'
  BY <1>4 DEF Release, GetChanged, Drop
<1>5. ASSUME NEW h \in Handles, NEW g \in Handles, Clone(h, g) PROVE TypeOK'
  BY <1>5 DEF Clone
<1> QED
  BY <1>1, <1>2, <1>3, <1>4, <1>5 DEF Next

(* The mutex is owned by the handle inside it, and by no other.            *)
LEMMA StepMutexOwned ==
  TypeOK /\ MutexOwned /\ [Next]_vars => MutexOwned'
<1> SUFFICES ASSUME TypeOK, MutexOwned, [Next]_vars PROVE MutexOwned'
  OBVIOUS
<1> USE WatchSwapAssumption DEF TypeOK, MutexOwned, Holding, Labels
<1>1. CASE UNCHANGED vars
  BY <1>1 DEF vars
<1>2. ASSUME NEW h \in Handles, Swap(h) PROVE MutexOwned'
  BY <1>2 DEF Swap, SwapSome, SwapNone, LockToNotify, NotifyAll
<1>3. ASSUME NEW h \in Handles, Wait(h) PROVE MutexOwned'
  BY <1>3 DEF Wait, WaitForChange, LockToCheck, FoundChange, FoundNoChange,
              CondvarWait, SpuriousWake
<1>4. ASSUME NEW h \in Handles, Release(h) \/ GetChanged(h) \/ Drop(h) PROVE MutexOwned'
  BY <1>4 DEF Release, GetChanged, Drop
<1>5. ASSUME NEW h \in Handles, NEW g \in Handles, Clone(h, g) PROVE MutexOwned'
  BY <1>5 DEF Clone
<1> QED
  BY <1>1, <1>2, <1>3, <1>4, <1>5 DEF Next

(* A handle that does not exist owns no reference.                         *)
LEMMA StepReferencesOwned ==
  TypeOK /\ ReferencesOwned /\ [Next]_vars => ReferencesOwned'
<1> SUFFICES ASSUME TypeOK, ReferencesOwned, [Next]_vars PROVE ReferencesOwned'
  OBVIOUS
<1> USE WatchSwapAssumption DEF TypeOK, ReferencesOwned, Labels
<1>1. CASE UNCHANGED vars
  BY <1>1 DEF vars
<1>2. ASSUME NEW h \in Handles, Swap(h) PROVE ReferencesOwned'
  BY <1>2 DEF Swap, SwapSome, SwapNone, LockToNotify, NotifyAll
<1>3. ASSUME NEW h \in Handles, Wait(h) PROVE ReferencesOwned'
  BY <1>3 DEF Wait, WaitForChange, LockToCheck, FoundChange, FoundNoChange,
              CondvarWait, SpuriousWake
<1>4. ASSUME NEW h \in Handles, Release(h) \/ GetChanged(h) \/ Drop(h)
      PROVE ReferencesOwned'
  BY <1>4 DEF Release, GetChanged, Drop
<1>5. ASSUME NEW h \in Handles, NEW g \in Handles, Clone(h, g) PROVE ReferencesOwned'
  BY <1>5 DEF Clone
<1> QED
  BY <1>1, <1>2, <1>3, <1>4, <1>5 DEF Next

(* A step that brings no new pointer into use, and changes neither what is *)
(* stored nor the shared pointer, keeps the pointers telling values apart. *)
LEMMA FewerPointers ==
  ASSUME PointersTellValuesApart,
         Referenced' \subseteq Referenced,
         UNCHANGED <<inner, heap, published>>
  PROVE  PointersTellValuesApart'
BY DEF PointersTellValuesApart

(* Different pointers in use lead to different publications: a new value   *)
(* is stored at an address nobody uses.                                    *)
LEMMA StepPointersTellValuesApart ==
  TypeOK /\ PointersTellValuesApart /\ [Next]_vars => PointersTellValuesApart'
<1> SUFFICES ASSUME TypeOK, PointersTellValuesApart, [Next]_vars
             PROVE  PointersTellValuesApart'
  OBVIOUS
<1> USE WatchSwapAssumption DEF TypeOK
<1>1. ASSUME UNCHANGED <<inner, cached, old, heap, published>>
      PROVE  PointersTellValuesApart'
  BY <1>1 DEF PointersTellValuesApart, Referenced
<1>2. ASSUME NEW h \in Handles, SwapSome(h) PROVE PointersTellValuesApart'
  <2>1. PICK a \in Unused :
          heap' = [heap EXCEPT ![a] = published'] /\ inner' = a
    BY <1>2 DEF SwapSome
  <2>2. a \in Addrs /\ a \notin Referenced
    BY DEF Unused
  <2>3. published' = published + 1 /\ published \in Nat
    BY <1>2 DEF SwapSome
  <2>4. Referenced' \subseteq Referenced \cup {a}
    BY <1>2, <2>1 DEF SwapSome, Referenced
  <2>5. heap'[a] = published'
    BY <2>1, <2>2
  <2>6. \A p \in Referenced \ {Null} : p \in Addrs /\ heap'[p] = heap[p]
    BY <2>1, <2>2 DEF Referenced, Pointers
  <2>7. \A p \in Referenced \ {Null} : heap'[p] \in 1..published
    BY <2>6 DEF PointersTellValuesApart
  <2>8. \A p \in Referenced' \ {Null} : heap'[p] \in 1..published'
    BY <2>3, <2>4, <2>5, <2>7
  <2>9. \A p, q \in Referenced' \ {Null} : heap'[p] = heap'[q] => p = q
    BY <2>3, <2>4, <2>5, <2>6, <2>7 DEF PointersTellValuesApart
  <2> QED
    BY <2>1, <2>5, <2>8, <2>9 DEF PointersTellValuesApart
<1>3. ASSUME NEW h \in Handles, SwapNone(h) PROVE PointersTellValuesApart'
  <2>1. Referenced' \subseteq Referenced \cup {Null}
    BY <1>3 DEF SwapNone, Referenced
  <2> QED
    BY <1>3, <2>1 DEF SwapNone, PointersTellValuesApart
<1>4. ASSUME NEW h \in Handles, Release(h) PROVE PointersTellValuesApart'
  <2>1. Referenced' \subseteq Referenced \cup {Null}
    BY <1>4 DEF Release, Referenced
  <2> QED
    BY <1>4, <2>1 DEF Release, PointersTellValuesApart
<1>5. ASSUME NEW h \in Handles, GetChanged(h) \/ FoundChange(h)
      PROVE  PointersTellValuesApart'
  <2>1. Referenced' \subseteq Referenced
    BY <1>5 DEF GetChanged, FoundChange, Referenced
  <2> QED
    BY <1>5, <2>1, FewerPointers DEF GetChanged, FoundChange
<1>6. ASSUME NEW h \in Handles, Drop(h) PROVE PointersTellValuesApart'
  <2>1. Referenced' \subseteq Referenced \cup {Null}
    BY <1>6 DEF Drop, Referenced
  <2> QED
    BY <1>6, <2>1 DEF Drop, PointersTellValuesApart
<1>7. ASSUME NEW h \in Handles, NEW g \in Handles, Clone(h, g)
      PROVE  PointersTellValuesApart'
  <2>1. Referenced' \subseteq Referenced
    BY <1>7 DEF Clone, Referenced
  <2> QED
    BY <1>7, <2>1, FewerPointers DEF Clone
<1>8. CASE UNCHANGED vars
  BY <1>1, <1>8 DEF vars
<1>9. ASSUME NEW h \in Handles,
             \/ LockToNotify(h) \/ NotifyAll(h) \/ WaitForChange(h)
             \/ LockToCheck(h) \/ FoundNoChange(h) \/ CondvarWait(h)
             \/ SpuriousWake(h)
      PROVE  PointersTellValuesApart'
  BY <1>1, <1>9 DEF LockToNotify, NotifyAll, WaitForChange, LockToCheck,
                    FoundNoChange, CondvarWait, SpuriousWake
<1> QED
  BY <1>2, <1>3, <1>4, <1>5, <1>6, <1>7, <1>8, <1>9 DEF Next, Swap, Wait

(* While a publisher notifies it owns the mutex, so nobody is between      *)
(* looking and sleeping; and who swaps later notifies later.               *)
LEMMA StepNoLostWakeup ==
  TypeOK /\ MutexOwned /\ ReferencesOwned /\ NoLostWakeup /\ [Next]_vars
    => NoLostWakeup'
<1> SUFFICES ASSUME TypeOK, MutexOwned, ReferencesOwned, NoLostWakeup, [Next]_vars
             PROVE  NoLostWakeup'
  OBVIOUS
<1> USE WatchSwapAssumption DEF TypeOK, NoLostWakeup, Changed
<1>1. CASE UNCHANGED vars
  BY <1>1 DEF vars
<1>2. ASSUME NEW h \in Handles, Swap(h) PROVE NoLostWakeup'
  <2>1. CASE SwapSome(h) \/ SwapNone(h)
    <3>1. pc'[h] = "swapped"
      BY <2>1 DEF SwapSome, SwapNone
    <3> QED
      BY <3>1
  <2>2. CASE LockToNotify(h)
    BY <2>2 DEF LockToNotify
  <2>3. CASE NotifyAll(h)
    <3>1. \A g \in Handles : pc[g] # "parking"
      BY <2>3 DEF NotifyAll, MutexOwned, Holding
    <3>2. \A g \in Handles : pc'[g] \notin {"parking", "waiting"}
      BY <2>3, <3>1 DEF NotifyAll
    <3> QED
      BY <3>2
  <2> QED
    BY <1>2, <2>1, <2>2, <2>3 DEF Swap
<1>3. ASSUME NEW h \in Handles, Wait(h) PROVE NoLostWakeup'
  BY <1>3 DEF Wait, WaitForChange, LockToCheck, FoundChange, FoundNoChange,
              CondvarWait, SpuriousWake
<1>4. ASSUME NEW h \in Handles, Release(h) \/ GetChanged(h) \/ Drop(h)
      PROVE NoLostWakeup'
  BY <1>4 DEF Release, GetChanged, Drop
<1>5. ASSUME NEW h \in Handles, NEW g \in Handles, Clone(h, g) PROVE NoLostWakeup'
  BY <1>5 DEF Clone
<1> QED
  BY <1>1, <1>2, <1>3, <1>4, <1>5 DEF Next

LEMMA StepInvariant == SwapInvariant /\ [Next]_vars => SwapInvariant'
BY StepTypeOK, StepMutexOwned, StepReferencesOwned, StepPointersTellValuesApart,
   StepNoLostWakeup DEF SwapInvariant

(* Every reachable state satisfies the invariant: types, one owner of the  *)
(* mutex, owned references, pointers that tell the values apart, and no    *)
(* lost wake-up.                                                           *)
THEOREM InvariantHolds == Spec => []SwapInvariant
<1>1. Init => SwapInvariant
  BY InitInvariant
<1>2. SwapInvariant /\ [Next]_vars => SwapInvariant'
  BY StepInvariant
<1> QED
  BY <1>1, <1>2, PTL DEF Spec

(* wait_for_change never sleeps through a change: as long as a sleeping    *)
(* handle has something to see, a swap still has its notify_all to come.   *)
THEOREM WakeupsAreNotLost == Spec => []NoLostWakeup
<1>1. SwapInvariant => NoLostWakeup
  BY DEF SwapInvariant
<1> QED
  BY <1>1, InvariantHolds, PTL

-----------------------------------------------------------------------------
(* The content of a pointer in use does not change under its user.         *)
LEMMA ContentIsStable ==
  ASSUME TypeOK, [Next]_vars, NEW p \in Referenced
  PROVE  Content(p)' = Content(p) /\ (p # Null => heap'[p] = heap[p])
<1> USE WatchSwapAssumption DEF TypeOK, Content
<1>1. CASE UNCHANGED heap
  BY <1>1
<1>2. ASSUME NEW h \in Handles, SwapSome(h)
      PROVE  Content(p)' = Content(p) /\ (p # Null => heap'[p] = heap[p])
  <2>1. PICK a \in Unused : heap' = [heap EXCEPT ![a] = published']
    BY <1>2 DEF SwapSome
  <2>2. a \in Addrs /\ a # p
    BY DEF Unused
  <2>3. p # Null => p \in Addrs
    BY DEF Referenced, Pointers
  <2> QED
    BY <2>1, <2>2, <2>3
<1>3. UNCHANGED heap \/ \E h \in Handles : SwapSome(h)
  BY DEF Next, Swap, Wait, vars, SwapNone, LockToNotify, NotifyAll, Release,
         GetChanged, WaitForChange, LockToCheck, FoundChange, FoundNoChange,
         CondvarWait, SpuriousWake, Clone, Drop
<1> QED
  BY <1>1, <1>2, <1>3

(* Comparing pointers tells changes: an address is never given to a new    *)
(* value while some handle still has it in its cache.                      *)
THEOREM CachedContentStays == Spec => CachedContentIsStable
<1> DEFINE Stable == \A h \in Handles :
                       cached[h] # Null /\ cached'[h] = cached[h]
                         => heap'[cached[h]] = heap[cached[h]]
<1>1. SwapInvariant /\ [Next]_vars => [Stable]_vars
  <2> SUFFICES ASSUME SwapInvariant, [Next]_vars PROVE Stable
    OBVIOUS
  <2>1. \A h \in Handles : cached[h] \in Referenced
    BY DEF Referenced
  <2> QED
    BY <2>1, ContentIsStable DEF SwapInvariant
<1>2. Spec => [][Stable]_vars
  <2> HIDE DEF Stable
  <2> QED
    BY <1>1, InvariantHolds, PTL DEF Spec
<1> QED
  BY <1>2 DEF CachedContentIsStable

-----------------------------------------------------------------------------
(* The refinement: every step of WatchSwap is a step of the register or    *)
(* leaves it alone.  A swap takes effect when the pointer is exchanged,    *)
(* waiting ends when the change is found.                                  *)
Live == {h \in Handles : pc[h] # "none"}

View == [h \in Handles |-> Content(cached[h])]

Blocked == {h \in Handles : pc[h] \in {"locking", "checking", "parking", "waiting"}}

LEMMA InitRefines == Init => Register!Init
<1> SUFFICES ASSUME Init PROVE Register!Init
  OBVIOUS
<1>1. PICK h0 \in Handles :
        /\ pc = [h \in Handles |-> IF h = h0 THEN "idle" ELSE "none"]
        /\ \/ /\ inner = Null
              /\ published = 0
              /\ heap = [a \in Addrs |-> 0]
           \/ \E a \in Addrs :
                /\ inner = a
                /\ published = 1
                /\ heap = [b \in Addrs |-> IF b = a THEN 1 ELSE 0]
        /\ cached = [h \in Handles |-> IF h = h0 THEN inner ELSE Null]
  BY DEF Init
<1>2. published \in {0, 1} /\ Content(inner) = published
  BY <1>1, WatchSwapAssumption DEF Content
<1>3. Live = {h0}
  BY <1>1 DEF Live
<1>4. View = [g \in Handles |-> IF g = h0 THEN Content(inner) ELSE 0]
  BY <1>1, WatchSwapAssumption DEF View, Content
<1>5. Blocked = {}
  BY <1>1 DEF Blocked
<1> QED
  BY <1>2, <1>3, <1>4, <1>5 DEF Register!Init, Live, View, Blocked

(* A step that leaves every pointer alone leaves contents and views alone. *)
LEMMA StutterInView ==
  ASSUME TypeOK, UNCHANGED <<inner, cached, heap, published>>
  PROVE  /\ UNCHANGED <<published, Content(inner), View>>
BY DEF Content, View

LEMMA StepRefines ==
  SwapInvariant /\ [Next]_vars => [Register!Next]_(Register!vars)
<1> SUFFICES ASSUME SwapInvariant, [Next]_vars
             PROVE  Register!Next \/ UNCHANGED <<published, Content(inner), Live, View, Blocked>>
  BY DEF Register!vars, Live, View, Blocked
<1> USE WatchSwapAssumption DEF SwapInvariant
<1> DEFINE Stutter == UNCHANGED <<published, Content(inner), Live, View, Blocked>>
<1>1. CASE UNCHANGED vars
  BY <1>1 DEF vars, Content, Live, View, Blocked
<1>2. \A h \in Handles : cached[h] \in Referenced /\ inner \in Referenced
  BY DEF Referenced
<1>3. UNCHANGED cached => UNCHANGED View
  BY <1>2, ContentIsStable DEF View
<1>4. ASSUME NEW h \in Handles, SwapSome(h) PROVE Register!Publish
  <2>1. Content(inner)' = published + 1 /\ published' = published + 1
    BY <1>4 DEF SwapSome, Unused, Content, TypeOK
  <2>2. UNCHANGED <<Live, Blocked>>
    BY <1>4 DEF SwapSome, Live, Blocked, TypeOK
  <2>3. UNCHANGED View
    BY <1>3, <1>4 DEF SwapSome
  <2> QED
    BY <2>1, <2>2, <2>3 DEF Register!Publish, Live, View, Blocked
<1>5. ASSUME NEW h \in Handles, SwapNone(h) PROVE Register!Clear
  <2>1. Content(inner)' = 0 /\ published' = published
    BY <1>5 DEF SwapNone, Content
  <2>2. UNCHANGED <<Live, Blocked>>
    BY <1>5 DEF SwapNone, Live, Blocked, TypeOK
  <2>3. UNCHANGED View
    BY <1>3, <1>5 DEF SwapNone
  <2> QED
    BY <2>1, <2>2, <2>3 DEF Register!Clear, Live, View, Blocked
<1>6. ASSUME NEW h \in Handles,
             \/ LockToNotify(h) \/ NotifyAll(h) \/ LockToCheck(h)
             \/ FoundNoChange(h) \/ CondvarWait(h) \/ SpuriousWake(h) \/ Release(h)
      PROVE  Stutter
  <2>1. UNCHANGED <<Live, Blocked>>
    BY <1>6 DEF LockToNotify, NotifyAll, LockToCheck, FoundNoChange, CondvarWait,
                SpuriousWake, Release, Live, Blocked, TypeOK
  <2>2. UNCHANGED <<inner, cached, heap, published>>
    BY <1>6 DEF LockToNotify, NotifyAll, LockToCheck, FoundNoChange, CondvarWait,
                SpuriousWake, Release
  <2> QED
    BY <2>1, <2>2, StutterInView
<1>7. ASSUME NEW h \in Handles, WaitForChange(h) PROVE Register!Wait(h)
  <2>1. h \in Live \ Blocked /\ Live' = Live /\ Blocked' = Blocked \cup {h}
    BY <1>7 DEF WaitForChange, Live, Blocked, TypeOK
  <2>2. UNCHANGED <<published, Content(inner), View>>
    BY <1>7, StutterInView DEF WaitForChange
  <2> QED
    BY <2>1, <2>2 DEF Register!Wait, Live, View, Blocked
<1>8. ASSUME NEW h \in Handles, GetChanged(h) PROVE Register!Look(h)
  <2>1. h \in Live \ Blocked /\ UNCHANGED <<Live, Blocked>>
    BY <1>8 DEF GetChanged, Live, Blocked
  <2>2. UNCHANGED <<published, Content(inner)>>
    BY <1>8 DEF GetChanged, Content
  <2>3. cached' = [cached EXCEPT ![h] = inner]
    BY <1>8 DEF GetChanged, Changed, TypeOK
  <2>4. View' = [View EXCEPT ![h] = Content(inner)]
    BY <1>8, <2>3 DEF GetChanged, View, Content, TypeOK
  <2> QED
    BY <2>1, <2>2, <2>4 DEF Register!Look, Live, View, Blocked
<1>9. ASSUME NEW h \in Handles, FoundChange(h) PROVE Register!Return(h)
  <2>1. h \in Blocked /\ Live' = Live /\ Blocked' = Blocked \ {h}
    BY <1>9 DEF FoundChange, Live, Blocked, TypeOK
  <2>2. UNCHANGED <<published, Content(inner)>>
    BY <1>9 DEF FoundChange, Content
  <2>3. View' = [View EXCEPT ![h] = Content(inner)]
    BY <1>9 DEF FoundChange, View, Content, TypeOK
  <2>4. Content(cached[h]) # Content(inner)
    BY <1>2, <1>9 DEF FoundChange, Changed, Content, PointersTellValuesApart
  <2>5. View[h] # Content(inner)
    BY <2>4 DEF View
  <2> QED
    BY <2>1, <2>2, <2>3, <2>5 DEF Register!Return, Live, View, Blocked
<1>10. ASSUME NEW h \in Handles, Drop(h) PROVE Register!Drop(h)
  <2>1. h \in Live \ Blocked /\ Live' = Live \ {h} /\ Blocked' = Blocked
    BY <1>10 DEF Drop, Live, Blocked, TypeOK
  <2>2. UNCHANGED <<published, Content(inner)>>
    BY <1>10 DEF Drop, Content
  <2>3. View' = [View EXCEPT ![h] = 0]
    BY <1>10 DEF Drop, View, Content, TypeOK
  <2> QED
    BY <2>1, <2>2, <2>3 DEF Register!Drop, Live, View, Blocked
<1>11. ASSUME NEW h \in Handles, NEW g \in Handles, Clone(h, g)
       PROVE  Register!Clone(h, g)
  <2>1. /\ h \in Live \ Blocked /\ g \in Handles \ Live
        /\ Live' = Live \cup {g} /\ Blocked' = Blocked
    BY <1>11 DEF Clone, Live, Blocked, TypeOK
  <2>2. UNCHANGED <<published, Content(inner)>>
    BY <1>11 DEF Clone, Content
  <2>3. View' = [View EXCEPT ![g] = View[h]]
    BY <1>11 DEF Clone, View, Content, TypeOK
  <2> QED
    BY <2>1, <2>2, <2>3 DEF Register!Clone, Live, View, Blocked
<1> QED
  BY <1>1, <1>4, <1>5, <1>6, <1>7, <1>8, <1>9, <1>10, <1>11
  DEF Next, Swap, Wait, Register!Next

(* WatchSwap is a WatchRegister: what the miner relies on - one register,  *)
(* looks that are always up to date, waits that end with a change only -   *)
(* holds for any number of threads, whatever their interleaving.           *)
THEOREM SwapIsARegister == Spec => ImplementsRegister
<1>1. Init => Register!Init
  BY InitRefines
<1>2. SwapInvariant /\ [Next]_vars => [Register!Next]_(Register!vars)
  BY StepRefines
<1> QED
  BY <1>1, <1>2, InvariantHolds, PTL DEF Spec, ImplementsRegister, Register!SafeSpec
=============================================================================
