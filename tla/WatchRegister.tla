--------------------------- MODULE WatchRegister ---------------------------
(***************************************************************************)
(* What a WatchSwap (src/swap_rust.rs) promises to its users: one shared   *)
(* register that holds the last published value, or nothing, and any       *)
(* number of handles, each with its own view of the register.  A handle    *)
(* may look at the register at any time, or wait until the register        *)
(* differs from its view.                                                  *)
(*                                                                         *)
(* A published value is represented by its publication number 1, 2, ...:   *)
(* two publications are different even when they carry equal data, because *)
(* the code compares pointers.  Nothing ("None") is 0.  How handles are    *)
(* woken, and how a change is detected, is left to WatchSwap.              *)
(***************************************************************************)
EXTENDS Naturals

CONSTANT Handles

VARIABLES
  published,  \* number of values published so far
  current,    \* content of the register: 0, or the last publication
  live,       \* the handles that exist
  view,       \* view[h]: the content h saw when it last looked
  blocked     \* the handles waiting for a change

vars == <<published, current, live, view, blocked>>

RegisterTypeOK ==
  /\ published \in Nat
  /\ current \in 0..published
  /\ live \subseteq Handles
  /\ view \in [Handles -> 0..published]
  /\ blocked \subseteq live

(* A channel starts with one handle, empty or holding a first value that   *)
(* the handle has already seen.                                            *)
Init ==
  /\ published \in {0, 1}
  /\ current = published
  /\ \E h \in Handles :
       /\ live = {h}
       /\ view = [g \in Handles |-> IF g = h THEN current ELSE 0]
  /\ blocked = {}

Publish ==
  /\ published' = published + 1
  /\ current' = published'
  /\ UNCHANGED <<live, view, blocked>>

Clear ==
  /\ current' = 0
  /\ UNCHANGED <<published, live, view, blocked>>

(* Looking without waiting always leaves the handle up to date.            *)
Look(h) ==
  /\ h \in live \ blocked
  /\ view' = [view EXCEPT ![h] = current]
  /\ UNCHANGED <<published, current, live, blocked>>

Wait(h) ==
  /\ h \in live \ blocked
  /\ blocked' = blocked \cup {h}
  /\ UNCHANGED <<published, current, live, view>>

(* A waiting handle returns only with a change, and with the newest one.   *)
Return(h) ==
  /\ h \in blocked
  /\ view[h] # current
  /\ view' = [view EXCEPT ![h] = current]
  /\ blocked' = blocked \ {h}
  /\ UNCHANGED <<published, current, live>>

(* A clone starts with the view of the handle it is cloned from.           *)
Clone(h, g) ==
  /\ h \in live \ blocked
  /\ g \in Handles \ live
  /\ live' = live \cup {g}
  /\ view' = [view EXCEPT ![g] = view[h]]
  /\ UNCHANGED <<published, current, blocked>>

Drop(h) ==
  /\ h \in live \ blocked
  /\ live' = live \ {h}
  /\ view' = [view EXCEPT ![h] = 0]
  /\ UNCHANGED <<published, current, blocked>>

Next ==
  \/ Publish
  \/ Clear
  \/ \E h \in Handles : Look(h) \/ Wait(h) \/ Return(h) \/ Drop(h)
  \/ \E h, g \in Handles : Clone(h, g)

SafeSpec == Init /\ [][Next]_vars

Spec == SafeSpec /\ \A h \in Handles : WF_vars(Return(h))

(* No waiting handle is forgotten: one that waits while the register       *)
(* differs from its view returns, unless the register takes the viewed     *)
(* content again before the handle gets to look.                           *)
NobodyForgotten ==
  \A h \in Handles :
    (h \in blocked /\ view[h] # current)
      ~> (h \notin blocked \/ view[h] = current)
=============================================================================
