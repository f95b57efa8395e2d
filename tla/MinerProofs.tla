---------------------------- MODULE MinerProofs ----------------------------
(***************************************************************************)
(* Proofs about Miner, for any number of threads, any nonce space, batch   *)
(* and channel capacity.                                                   *)
(*                                                                         *)
(* Most steps touch one thread and little of the shared state.  Each lemma *)
(* below preserves one part of MinerInvariant, action by action.           *)
(***************************************************************************)
EXTENDS Miner, NumberFacts, FiniteSetTheorems

USE DEF At, Goto

LEMMA ConstantFacts ==
  /\ Batch \in Nat \ {0} /\ NonceSpace \in Nat \ {0} /\ NonceSpace % Batch = 0
  /\ CounterSpace \in Nat \ {0}
  /\ ChannelCap \in Nat \ {0} /\ MaxTemplates \in Nat \ {0}
BY MinerAssumption

(* Where a nonce goes, and that a batch is complete at its end.            *)
LEMMA NextNonce ==
  ASSUME NEW n \in Nonces
  PROVE  /\ (n + 1) % NonceSpace \in Nonces
         /\ n % Batch \in 0..Batch-1
         /\ ((n + 1) % NonceSpace) % Batch
              = IF n % Batch = Batch - 1 THEN 0 ELSE (n % Batch) + 1
<1>1. n \in 0..NonceSpace-1 /\ n \in Int
  BY ConstantFacts DEF Nonces
<1>2. n % Batch \in 0..Batch-1
  BY <1>1, ConstantFacts, ModRange
<1>3. /\ (n + 1) % NonceSpace \in 0..NonceSpace-1
      /\ ((n + 1) % NonceSpace) % Batch
           = IF n % Batch = Batch - 1 THEN 0 ELSE (n % Batch) + 1
  <2>1. /\ Batch \in Nat \ {0} /\ NonceSpace \in Nat \ {0}
        /\ NonceSpace % Batch = 0
    BY ConstantFacts
  <2> QED
    BY <1>1, <2>1, WrappedModStep
<1> QED
  BY <1>2, <1>3 DEF Nonces

(* Remainders stay in the counter, wherever they come from.                *)
LEMMA CounterRange ==
  ASSUME NEW n \in Int
  PROVE  n % CounterSpace \in 0..CounterSpace-1
BY ConstantFacts, ModRange

(* What a thread that hashes or sends holds is a block.                    *)
LEMMA BlockOfIsBlock ==
  ASSUME ThreadTypeOK, NEW t \in Threads, state[t] # 0
  PROVE  BlockOf(t) \in Blocks
BY ConstantFacts DEF ThreadTypeOK, BlockOf, Blocks, Templates

-----------------------------------------------------------------------------
(* Types.                                                                  *)
LEMMA InitTypeOK == Init => TypeOK
<1> SUFFICES ASSUME Init PROVE TypeOK
  OBVIOUS
<1> USE ConstantFacts DEF Init
<1>1. SlotTypeOK
  BY DEF SlotTypeOK, Slot!RegisterTypeOK
<1>2. FlagsTypeOK
  BY DEF FlagsTypeOK
<1>3. ThreadTypeOK
  BY DEF ThreadTypeOK, Labels
<1>4. BlocksTypeOK
  BY DEF BlocksTypeOK
<1>5. \A t \in Threads : nonce[t] % Batch \in 0..Batch-1
  BY NextNonce
<1>6. CountersTypeOK
  BY <1>5 DEF CountersTypeOK
<1> QED
  BY <1>1, <1>2, <1>3, <1>4, <1>6 DEF TypeOK

LEMMA StepSlotTypeOK == SlotTypeOK /\ [Next]_vars => SlotTypeOK'
<1> SUFFICES ASSUME SlotTypeOK, [Next]_vars PROVE SlotTypeOK'
  OBVIOUS
<1> USE ConstantFacts DEF SlotTypeOK, Slot!RegisterTypeOK
<1>1. CASE UNCHANGED slotVars
  BY <1>1 DEF slotVars
<1>2. CASE ProcessBlock
  <2>1. published' = published + 1 /\ published' <= MaxTemplates /\ current' = published'
    BY <1>2 DEF ProcessBlock, Slot!Publish
  <2>2. UNCHANGED <<live, view, blocked>>
    BY <1>2 DEF ProcessBlock, Slot!Publish
  <2>3. view \in [Threads -> 0..published']
    BY <2>1
  <2> QED
    BY <2>1, <2>2, <2>3
<1>3. CASE ProcessNone
  BY <1>3 DEF ProcessNone, Slot!Clear
<1>4. ASSUME NEW t \in Threads, Thread(t) PROVE SlotTypeOK'
  <2>1. CASE Slot!Wait(t)
    BY <2>1 DEF Slot!Wait
  <2>2. CASE Slot!Return(t) \/ Slot!Look(t)
    BY <2>2 DEF Slot!Return, Slot!Look
  <2>3. CASE Slot!Drop(t)
    BY <2>3 DEF Slot!Drop
  <2> QED
    BY <1>1, <1>4, <2>1, <2>2, <2>3
    DEF Thread, BeginWait, EndWait, HashNonce, SendBlock, SendFails, CountBatch,
        CheckShutdown, Poll, Exit, slotVars
<1> QED
  BY <1>1, <1>2, <1>3, <1>4
  DEF Next, vars, ProcessBadBlock, DropManager, MainReturns, LogHashrate, Deliver, Disconnect

LEMMA StepFlagsTypeOK == FlagsTypeOK /\ [Next]_vars => FlagsTypeOK'
BY DEF FlagsTypeOK, Next, vars, managerVars, processVars,
       ProcessBlock, ProcessBadBlock, ProcessNone, DropManager, MainReturns,
       LogHashrate, Deliver, Disconnect, Thread, BeginWait, EndWait, HashNonce,
       SendBlock, SendFails, CountBatch, CheckShutdown, Poll

LEMMA StepThreadTypeOK == SlotTypeOK /\ ThreadTypeOK /\ [Next]_vars => ThreadTypeOK'
<1> SUFFICES ASSUME SlotTypeOK, ThreadTypeOK, [Next]_vars PROVE ThreadTypeOK'
  OBVIOUS
<1> USE ConstantFacts DEF ThreadTypeOK, Labels
<1>1. CASE UNCHANGED threadVars
  BY <1>1 DEF threadVars
<1>2. ASSUME NEW t \in Threads, Thread(t) PROVE ThreadTypeOK'
  <2>1. current \in 0..MaxTemplates
    BY DEF SlotTypeOK, Slot!RegisterTypeOK
  <2>2. CASE BeginWait(t) \/ EndWait(t) \/ CountBatch(t) \/ CheckShutdown(t)
             \/ Poll(t) \/ SendFails(t)
    BY <2>1, <2>2 DEF BeginWait, EndWait, CountBatch, CheckShutdown, Poll, SendFails,
                      Exit, threadVars
  <2>3. CASE HashNonce(t) \/ SendBlock(t)
    <3>1. nonce[t] \in Nonces /\ (nonce[t] + 1) % NonceSpace \in Nonces
      BY NextNonce
    <3> QED
      BY <2>3, <3>1 DEF HashNonce, SendBlock, Advance
  <2> QED
    BY <1>2, <2>2, <2>3 DEF Thread
<1> QED
  BY <1>1, <1>2 DEF Next, vars, ProcessBlock, ProcessBadBlock, ProcessNone, DropManager,
                    MainReturns, LogHashrate, Deliver, Disconnect

LEMMA StepBlocksTypeOK ==
  ThreadTypeOK /\ BlocksTypeOK /\ MinesWhatItSaw /\ [Next]_vars => BlocksTypeOK'
<1> SUFFICES ASSUME ThreadTypeOK, BlocksTypeOK, MinesWhatItSaw, [Next]_vars
             PROVE  BlocksTypeOK'
  OBVIOUS
<1> USE ConstantFacts DEF BlocksTypeOK
<1>1. CASE UNCHANGED <<channel, found, delivered>>
  BY <1>1
<1>2. CASE Deliver
  BY <1>2 DEF Deliver
<1>3. CASE Disconnect
  BY <1>3 DEF Disconnect, historyVars
<1>4. ASSUME NEW t \in Threads, Thread(t) PROVE BlocksTypeOK'
  <2>1. CASE HashNonce(t)
    <3>1. BlockOf(t) \in Blocks
      BY <2>1, BlockOfIsBlock DEF HashNonce
    <3> QED
      BY <2>1, <3>1 DEF HashNonce, processVars
  <2>2. CASE SendBlock(t)
    <3>1. BlockOf(t) \in Blocks
      BY <2>2, BlockOfIsBlock DEF SendBlock, MinesWhatItSaw
    <3> QED
      BY <2>2, <3>1 DEF SendBlock
  <2> QED
    BY <1>1, <1>4, <2>1, <2>2
    DEF Thread, BeginWait, EndWait, SendFails, CountBatch, CheckShutdown, Poll,
        processVars, historyVars
<1> QED
  BY <1>1, <1>2, <1>3, <1>4
  DEF Next, vars, ProcessBlock, ProcessBadBlock, ProcessNone, DropManager, MainReturns,
      LogHashrate, processVars, historyVars

LEMMA StepCountersTypeOK == CountersTypeOK /\ [Next]_vars => CountersTypeOK'
<1> SUFFICES ASSUME CountersTypeOK, [Next]_vars PROVE CountersTypeOK'
  OBVIOUS
<1> USE ConstantFacts DEF CountersTypeOK
<1>1. /\ unreported - hashesTried \in Int
      /\ unreported + 1 \in Int
      /\ hashesTried + Batch \in Int
  OBVIOUS
<1>2. CASE UNCHANGED <<hashesTried, historyVars>>
  BY <1>2 DEF historyVars
<1>3. CASE LogHashrate
  BY <1>1, <1>3, CounterRange DEF LogHashrate
<1>4. ASSUME NEW t \in Threads, Thread(t) PROVE CountersTypeOK'
  <2>1. CASE EndWait(t) \/ Poll(t)
    BY <2>1 DEF EndWait, Poll
  <2>2. CASE HashNonce(t)
    <3>1. unreported' \in 0..CounterSpace-1
      BY <1>1, <2>2, CounterRange DEF HashNonce, Advance
    <3> QED
      BY <2>2, <3>1 DEF HashNonce
  <2>3. CASE SendBlock(t)
    BY <1>1, <2>3, CounterRange DEF SendBlock, Advance
  <2>4. CASE CountBatch(t)
    BY <1>1, <2>4, CounterRange DEF CountBatch, historyVars
  <2> QED
    BY <1>2, <1>4, <2>1, <2>2, <2>3, <2>4 DEF Thread, BeginWait, SendFails, CheckShutdown
<1>5. CASE Deliver
  BY <1>5 DEF Deliver
<1> QED
  BY <1>2, <1>3, <1>4, <1>5 DEF Next, vars, ProcessBlock, ProcessBadBlock, ProcessNone,
                                DropManager, MainReturns, Disconnect

LEMMA StepTypeOK == TypeOK /\ MinesWhatItSaw /\ [Next]_vars => TypeOK'
BY StepSlotTypeOK, StepFlagsTypeOK, StepThreadTypeOK, StepBlocksTypeOK,
   StepCountersTypeOK DEF TypeOK

-----------------------------------------------------------------------------
(* A thread mines what it saw.                                             *)
LEMMA StepMinesWhatItSaw ==
  TypeOK /\ MinesWhatItSaw /\ [Next]_vars => MinesWhatItSaw'
<1> SUFFICES ASSUME TypeOK, MinesWhatItSaw, [Next]_vars PROVE MinesWhatItSaw'
  OBVIOUS
<1> USE DEF TypeOK, SlotTypeOK, Slot!RegisterTypeOK, ThreadTypeOK, MinesWhatItSaw, Labels
<1>1. CASE UNCHANGED <<live, view, blocked, threadVars>>
  BY <1>1 DEF threadVars
<1>2. ASSUME NEW t \in Threads, Thread(t) PROVE MinesWhatItSaw'
  <2>1. CASE BeginWait(t)
    BY <2>1 DEF BeginWait, Slot!Wait, threadVars
  <2>2. CASE EndWait(t)
    BY <2>2 DEF EndWait, Slot!Return
  <2>3. CASE HashNonce(t)
    BY <2>3 DEF HashNonce, Advance, slotVars
  <2>4. CASE SendBlock(t)
    BY <2>4 DEF SendBlock, Advance, slotVars
  <2>5. CASE SendFails(t)
    BY <2>5 DEF SendFails, Exit, Slot!Drop
  <2>6. CASE CountBatch(t)
    BY <2>6 DEF CountBatch, slotVars
  <2>7. CASE CheckShutdown(t)
    BY <2>7 DEF CheckShutdown, Exit, Slot!Drop, slotVars
  <2>8. CASE Poll(t)
    BY <2>8 DEF Poll, Slot!Look
  <2> QED
    BY <1>2, <2>1, <2>2, <2>3, <2>4, <2>5, <2>6, <2>7, <2>8 DEF Thread
<1> QED
  BY <1>1, <1>2
  DEF Next, vars, ProcessBlock, ProcessBadBlock, ProcessNone, DropManager, MainReturns,
      LogHashrate, Deliver, Disconnect, Slot!Publish, Slot!Clear, slotVars

-----------------------------------------------------------------------------
(* Blocks.  A thread that waits for room changes neither template nor      *)
(* nonce, so that the block it sends is the one it found.                  *)
LEMMA SteadyBlock ==
  ASSUME ThreadTypeOK, NEW t \in Threads, Thread(t), NEW u \in Threads, u # t
  PROVE  pc'[u] = pc[u] /\ state'[u] = state[u] /\ nonce'[u] = nonce[u]
BY DEF ThreadTypeOK, Thread, BeginWait, EndWait, HashNonce, SendBlock, SendFails,
       CountBatch, CheckShutdown, Poll, Exit, Advance, threadVars

LEMMA StepSendsASolution ==
  TypeOK /\ SendsASolution /\ [Next]_vars => SendsASolution'
<1> SUFFICES ASSUME TypeOK, SendsASolution, [Next]_vars PROVE SendsASolution'
  OBVIOUS
<1> USE DEF TypeOK, SendsASolution, Solves
<1>1. CASE UNCHANGED threadVars
  BY <1>1 DEF threadVars
<1>2. ASSUME NEW t \in Threads, Thread(t) PROVE SendsASolution'
  <2>1. pc'[t] = "send" => Solves(state'[t], nonce'[t])
    BY <1>2 DEF ThreadTypeOK, Thread, BeginWait, EndWait, HashNonce, SendBlock,
                SendFails, CountBatch, CheckShutdown, Poll, Exit, Advance, threadVars
  <2> QED
    BY <1>2, <2>1, SteadyBlock
<1> QED
  BY <1>1, <1>2
  DEF Next, vars, ProcessBlock, ProcessBadBlock, ProcessNone, DropManager, MainReturns,
      LogHashrate, Deliver, Disconnect

(* What is in a channel after a block went in, and after one came out.     *)
LEMMA ToSetAppend ==
  ASSUME NEW S, NEW s \in Seq(S), NEW e \in S
  PROVE  ToSet(Append(s, e)) = ToSet(s) \cup {e}
<1>1. DOMAIN s = 1..Len(s) /\ DOMAIN Append(s, e) = 1..Len(s)+1 /\ Len(s) \in Nat
  OBVIOUS
<1>2. /\ \A i \in 1..Len(s) : Append(s, e)[i] = s[i]
      /\ Append(s, e)[Len(s)+1] = e
  OBVIOUS
<1>3. \A i \in 1..Len(s)+1 : i \in 1..Len(s) \/ i = Len(s)+1
  BY <1>1
<1>4. ToSet(Append(s, e)) \subseteq ToSet(s) \cup {e}
  BY <1>1, <1>2, <1>3 DEF ToSet
<1>5. ToSet(s) \cup {e} \subseteq ToSet(Append(s, e))
  BY <1>1, <1>2 DEF ToSet
<1> QED
  BY <1>4, <1>5

LEMMA ToSetTail ==
  ASSUME NEW S, NEW s \in Seq(S), s # <<>>
  PROVE  ToSet(s) = {Head(s)} \cup ToSet(Tail(s))
<1> DEFINE t == Tail(s)
<1>1. \A i \in 1..Len(s) : i = 1 \/ (i - 1 \in 1..Len(t) /\ t[i-1] = s[i])
  OBVIOUS
<1>2. \A i \in 1..Len(t) : i + 1 \in 1..Len(s) /\ t[i] = s[i+1]
  OBVIOUS
<1>3. 1 \in 1..Len(s) /\ Head(s) = s[1]
  OBVIOUS
<1>4. DOMAIN s = 1..Len(s) /\ DOMAIN t = 1..Len(t)
  OBVIOUS
<1> HIDE DEF t
<1>5. ToSet(s) \subseteq {Head(s)} \cup ToSet(t)
  BY <1>1, <1>3, <1>4 DEF ToSet
<1>6. {Head(s)} \cup ToSet(t) \subseteq ToSet(s)
  BY <1>2, <1>3, <1>4 DEF ToSet
<1> QED
  BY <1>5, <1>6 DEF t

LEMMA StepBlocksSolve ==
  TypeOK /\ MinesWhatItSaw /\ SendsASolution /\ BlocksSolveTheirTemplate /\ [Next]_vars
    => BlocksSolveTheirTemplate'
<1> SUFFICES ASSUME TypeOK, MinesWhatItSaw, SendsASolution, BlocksSolveTheirTemplate,
                    [Next]_vars
             PROVE  BlocksSolveTheirTemplate'
  OBVIOUS
<1> USE DEF TypeOK, BlocksTypeOK, BlocksSolveTheirTemplate, Solves
<1>1. CASE UNCHANGED <<channel, found, delivered>>
  BY <1>1
<1>2. CASE Deliver
  <2>1. ToSet(channel) = {Head(channel)} \cup ToSet(channel')
    BY <1>2, ToSetTail DEF Deliver
  <2> QED
    BY <1>2, <2>1 DEF Deliver
<1>3. CASE Disconnect
  <2>1. ToSet(channel') = {}
    BY <1>3 DEF Disconnect, ToSet
  <2> QED
    BY <1>3, <2>1 DEF Disconnect, historyVars
<1>4. ASSUME NEW t \in Threads, Thread(t) PROVE BlocksSolveTheirTemplate'
  <2>1. CASE HashNonce(t)
    <3>1. found' \subseteq found \cup {BlockOf(t)}
      BY <2>1 DEF HashNonce
    <3>2. found' = found \/ Solves(BlockOf(t).template, BlockOf(t).nonce)
      BY <2>1 DEF HashNonce, BlockOf
    <3> QED
      BY <2>1, <3>1, <3>2 DEF HashNonce, processVars
  <2>2. CASE SendBlock(t)
    <3>1. BlockOf(t) \in Blocks
      BY <2>2, BlockOfIsBlock DEF SendBlock, MinesWhatItSaw
    <3>2. ToSet(channel') = ToSet(channel) \cup {BlockOf(t)}
      BY <2>2, <3>1, ToSetAppend DEF SendBlock
    <3>3. Solves(BlockOf(t).template, BlockOf(t).nonce)
      BY <2>2 DEF SendBlock, BlockOf, SendsASolution
    <3> QED
      BY <2>2, <3>2, <3>3 DEF SendBlock
  <2> QED
    BY <1>1, <1>4, <2>1, <2>2
    DEF Thread, BeginWait, EndWait, SendFails, CountBatch, CheckShutdown, Poll,
        processVars, historyVars
<1> QED
  BY <1>1, <1>2, <1>3, <1>4
  DEF Next, vars, ProcessBlock, ProcessBadBlock, ProcessNone, DropManager, MainReturns,
      LogHashrate, processVars, historyVars

(* Where the found blocks are, while the connection is open.               *)
LEMMA StepNoFoundBlockIsLost ==
  TypeOK /\ MinesWhatItSaw /\ NoFoundBlockIsLost /\ [Next]_vars => NoFoundBlockIsLost'
<1> SUFFICES ASSUME TypeOK, MinesWhatItSaw, [Next]_vars, NoFoundBlockIsLost,
                    open', NEW b \in found'
             PROVE  \/ b \in delivered' \/ b \in ToSet(channel')
                    \/ \E u \in Threads : pc'[u] = "send" /\ b = BlockOf(u)'
  BY DEF NoFoundBlockIsLost
<1> USE DEF TypeOK, BlocksTypeOK, BlockOf
<1>1. open
  BY DEF Next, vars, processVars, ProcessBlock, ProcessBadBlock, ProcessNone,
         DropManager, MainReturns, LogHashrate, Deliver, Disconnect, Thread, BeginWait,
         EndWait, HashNonce, SendBlock, SendFails, CountBatch, CheckShutdown, Poll
<1>2. b \in found => \/ b \in delivered \/ b \in ToSet(channel)
                     \/ \E u \in Threads : pc[u] = "send" /\ b = BlockOf(u)
  BY <1>1 DEF NoFoundBlockIsLost
<1>3. CASE UNCHANGED <<channel, found, delivered, threadVars>>
  BY <1>2, <1>3 DEF threadVars
<1>4. CASE Deliver
  <2>1. ToSet(channel) = {Head(channel)} \cup ToSet(channel')
    BY <1>4, ToSetTail DEF Deliver
  <2> QED
    BY <1>2, <1>4, <2>1 DEF Deliver, threadVars
<1>5. CASE Disconnect
  BY <1>5 DEF Disconnect
<1>6. ASSUME NEW t \in Threads, Thread(t)
      PROVE  \/ b \in delivered' \/ b \in ToSet(channel')
             \/ \E u \in Threads : pc'[u] = "send" /\ b = BlockOf(u)'
  <2>1. \A u \in Threads : u # t /\ pc[u] = "send"
          => pc'[u] = "send" /\ BlockOf(u)' = BlockOf(u)
    BY <1>6, SteadyBlock
  <2>2. CASE HashNonce(t)
    <3>1. b = BlockOf(t) /\ b \notin found => pc'[t] = "send" /\ BlockOf(t)' = BlockOf(t)
      BY <2>2 DEF HashNonce, ThreadTypeOK
    <3>2. b \in found \/ b = BlockOf(t)
      BY <2>2 DEF HashNonce
    <3>3. pc[t] # "send" /\ UNCHANGED <<channel, delivered>>
      BY <2>2 DEF HashNonce, processVars
    <3> QED
      BY <1>2, <2>1, <3>1, <3>2, <3>3
  <2>3. CASE SendBlock(t)
    <3>1. BlockOf(t) \in Blocks
      BY <2>3, BlockOfIsBlock DEF SendBlock, MinesWhatItSaw
    <3>2. ToSet(channel') = ToSet(channel) \cup {BlockOf(t)}
      BY <2>3, <3>1, ToSetAppend DEF SendBlock
    <3>3. UNCHANGED <<found, delivered>>
      BY <2>3 DEF SendBlock
    <3> QED
      BY <1>2, <2>1, <3>2, <3>3
  <2>4. CASE SendFails(t)
    BY <1>1, <2>4 DEF SendFails
  <2>5. CASE BeginWait(t) \/ EndWait(t) \/ CountBatch(t) \/ CheckShutdown(t) \/ Poll(t)
    <3>1. pc[t] # "send" /\ UNCHANGED <<found, delivered, channel>>
      BY <2>5 DEF BeginWait, EndWait, CountBatch, CheckShutdown, Poll, processVars,
                  historyVars
    <3> QED
      BY <1>2, <2>1, <3>1
  <2> QED
    BY <1>6, <2>2, <2>3, <2>4, <2>5 DEF Thread
<1> QED
  BY <1>3, <1>4, <1>5, <1>6
  DEF Next, vars, ProcessBlock, ProcessBadBlock, ProcessNone, DropManager, MainReturns,
      LogHashrate, processVars, historyVars

-----------------------------------------------------------------------------
(* Staleness.  Moving to the next nonce ends the batch, or is one further  *)
(* into it.                                                                *)
LEMMA AdvanceStale ==
  ASSUME TypeOK, StaleInBatch, NEW t \in Threads, Advance(t),
         stale'[t] \in Nat, stale'[t] <= (nonce[t] % Batch) + 1
  PROVE  /\ pc'[t] = "top" => stale'[t] <= nonce'[t] % Batch
         /\ pc'[t] = "count" => nonce'[t] % Batch = 0
         /\ pc'[t] \in {"top", "count"}
         /\ stale'[t] <= Batch
<1> USE ConstantFacts
<1>1. nonce[t] \in Nonces /\ pc \in [Threads -> Labels] /\ nonce \in [Threads -> Nonces]
  BY DEF TypeOK, ThreadTypeOK
<1> DEFINE r == nonce[t] % Batch
           s == ((nonce[t] + 1) % NonceSpace) % Batch
<1>2. r \in 0..Batch-1 /\ s = IF r = Batch - 1 THEN 0 ELSE r + 1
  BY <1>1, NextNonce
<1>3. nonce'[t] % Batch = s /\ pc'[t] = IF s = 0 THEN "count" ELSE "top"
  BY <1>1 DEF Advance, BatchComplete
<1> HIDE DEF r, s
<1>4. stale'[t] <= r + 1
  BY DEF r
<1> QED
  BY <1>2, <1>3, <1>4

(* What a thread does concerns its own counts only.                        *)
LEMMA SteadyStale ==
  ASSUME TypeOK, NEW t \in Threads, Thread(t), NEW u \in Threads, u # t
  PROVE  pc'[u] = pc[u] /\ stale'[u] = stale[u] /\ nonce'[u] = nonce[u]
<1>1. stale'[u] = stale[u]
  BY DEF TypeOK, CountersTypeOK, Thread, BeginWait, EndWait, HashNonce, SendBlock,
         SendFails, CountBatch, CheckShutdown, Poll, historyVars
<1> QED
  BY <1>1, SteadyBlock DEF TypeOK

StaleOf(t) ==
  /\ At(t, "top") => stale[t] <= nonce[t] % Batch
  /\ At(t, "send") => stale[t] <= (nonce[t] % Batch) + 1
  /\ At(t, "count") \/ At(t, "check") \/ At(t, "poll") => nonce[t] % Batch = 0
  /\ stale[t] <= Batch

LEMMA StepStaleInBatch ==
  TypeOK /\ StaleInBatch /\ [Next]_vars => StaleInBatch'
<1> SUFFICES ASSUME TypeOK, StaleInBatch, [Next]_vars PROVE StaleInBatch'
  OBVIOUS
<1>1. CASE UNCHANGED <<pc, nonce, stale>>
  BY <1>1 DEF StaleInBatch
<1>2. ASSUME NEW t \in Threads, Thread(t) PROVE StaleInBatch'
  <2>1. StaleOf(t)
    BY DEF StaleInBatch, StaleOf
  <2>2. nonce[t] % Batch \in 0..Batch-1
    BY NextNonce DEF TypeOK, ThreadTypeOK
  <2>3. /\ stale \in [Threads -> Nat] /\ pc \in [Threads -> Labels]
        /\ nonce \in [Threads -> Nonces] /\ Batch \in Nat \ {0}
    BY ConstantFacts DEF TypeOK, ThreadTypeOK, CountersTypeOK
  <2>4. CASE HashNonce(t)
    <3>1. pc[t] = "top" /\ stale' = [stale EXCEPT ![t] = IF view[t] = current THEN 0 ELSE @ + 1]
      BY <2>4 DEF HashNonce
    <3>2. stale'[t] \in Nat /\ stale'[t] <= (nonce[t] % Batch) + 1
      BY <2>1, <2>2, <2>3, <3>1 DEF StaleOf
    <3>3. CASE Solves(state[t], nonce[t])
      <4>1. pc'[t] = "send" /\ nonce' = nonce
        BY <2>3, <2>4, <3>3 DEF HashNonce
      <4>2. StaleOf(t)'
        BY <2>2, <2>3, <3>2, <4>1 DEF StaleOf
      <4> QED
        BY <1>2, <4>2, SteadyStale DEF StaleInBatch, StaleOf
    <3>4. CASE ~Solves(state[t], nonce[t])
      <4>1. Advance(t)
        BY <2>4, <3>4 DEF HashNonce
      <4>2. StaleOf(t)'
        BY <3>2, <4>1, AdvanceStale DEF StaleOf
      <4> QED
        BY <1>2, <4>2, SteadyStale DEF StaleInBatch, StaleOf
    <3> QED
      BY <3>3, <3>4
  <2>5. CASE SendBlock(t)
    <3>1. pc[t] = "send" /\ stale' = stale /\ Advance(t)
      BY <2>5 DEF SendBlock
    <3>2. stale'[t] \in Nat /\ stale'[t] <= (nonce[t] % Batch) + 1
      BY <2>1, <2>3, <3>1 DEF StaleOf
    <3>3. StaleOf(t)'
      BY <3>1, <3>2, AdvanceStale DEF StaleOf
    <3> QED
      BY <1>2, <3>3, SteadyStale DEF StaleInBatch, StaleOf
  <2>6. CASE EndWait(t) \/ Poll(t)
    <3>1. nonce' = nonce /\ stale'[t] = 0 /\ pc'[t] = "top"
      BY <2>3, <2>6 DEF EndWait, Poll
    <3>2. StaleOf(t)'
      BY <2>2, <2>3, <3>1 DEF StaleOf
    <3> QED
      BY <1>2, <3>2, SteadyStale DEF StaleInBatch, StaleOf
  <2>7. CASE BeginWait(t)
    BY <1>1, <2>7 DEF BeginWait, threadVars, historyVars
  <2>8. CASE SendFails(t) \/ CountBatch(t) \/ CheckShutdown(t)
    <3>1. /\ nonce' = nonce /\ stale' = stale
          /\ \/ pc'[t] = "exited"
             \/ pc[t] \in {"count", "check"} /\ pc'[t] \in {"check", "poll"}
      BY <2>3, <2>8 DEF SendFails, CountBatch, CheckShutdown, Exit, historyVars
    <3>2. StaleOf(t)'
      BY <2>1, <3>1 DEF StaleOf
    <3> QED
      BY <1>2, <3>2, SteadyStale DEF StaleInBatch, StaleOf
  <2> QED
    BY <1>2, <2>4, <2>5, <2>6, <2>7, <2>8 DEF Thread
<1> QED
  BY <1>1, <1>2
  DEF Next, vars, ProcessBlock, ProcessBadBlock, ProcessNone, DropManager, MainReturns,
      LogHashrate, Deliver, Disconnect, threadVars, historyVars

-----------------------------------------------------------------------------
(* The flag and the slot are changed together, by the manager only.        *)
LEMMA StepSynced ==
  TypeOK /\ SyncedMeansTemplate /\ [Next]_vars => SyncedMeansTemplate'
<1> SUFFICES ASSUME TypeOK, SyncedMeansTemplate, [Next]_vars PROVE SyncedMeansTemplate'
  OBVIOUS
<1> USE DEF TypeOK, SlotTypeOK, Slot!RegisterTypeOK, SyncedMeansTemplate
<1>1. CASE UNCHANGED <<managed, isSynced, published, current>>
  BY <1>1
<1>2. CASE ProcessBlock
  BY <1>2 DEF ProcessBlock, Slot!Publish
<1>3. CASE ProcessNone
  BY <1>3 DEF ProcessNone, Slot!Clear
<1>4. CASE ProcessBadBlock \/ DropManager
  BY <1>4 DEF ProcessBadBlock, DropManager
<1>5. ASSUME NEW t \in Threads, Thread(t)
      PROVE  UNCHANGED <<managed, isSynced, published, current>>
  BY <1>5 DEF Thread, BeginWait, EndWait, HashNonce, SendBlock, SendFails, CountBatch,
     CheckShutdown, Poll, Exit, managerVars, slotVars, Slot!Wait, Slot!Return, Slot!Look,
     Slot!Drop
<1> QED
  BY <1>1, <1>2, <1>3, <1>4, <1>5
  DEF Next, vars, MainReturns, LogHashrate, Deliver, Disconnect, managerVars, slotVars

-----------------------------------------------------------------------------
LEMMA InitMiner == Init => MinerInvariant
<1> SUFFICES ASSUME Init PROVE MinerInvariant
  OBVIOUS
<1>1. TypeOK
  BY InitTypeOK
<1>2. \A t \in Threads : nonce[t] % Batch \in 0..Batch-1
  BY NextNonce DEF Init
<1>3. StaleInBatch
  BY <1>2, ConstantFacts DEF Init, StaleInBatch
<1>4. MinesWhatItSaw /\ SendsASolution /\ SyncedMeansTemplate /\ NoFoundBlockIsLost
  BY DEF Init, MinesWhatItSaw, SendsASolution, SyncedMeansTemplate, NoFoundBlockIsLost
<1>5. ToSet(channel) = {}
  BY DEF Init, ToSet
<1>6. BlocksSolveTheirTemplate
  BY <1>5 DEF Init, BlocksSolveTheirTemplate
<1> QED
  BY <1>1, <1>3, <1>4, <1>6 DEF MinerInvariant

LEMMA StepMiner == MinerInvariant /\ [Next]_vars => MinerInvariant'
BY StepTypeOK, StepMinesWhatItSaw, StepSendsASolution, StepBlocksSolve,
   StepNoFoundBlockIsLost, StepStaleInBatch, StepSynced DEF MinerInvariant

(* Every reachable state of manager, threads and channel satisfies the     *)
(* invariant that the following theorems are read off.                     *)
THEOREM MinerInvariantHolds == Spec => []MinerInvariant
<1>1. Init => MinerInvariant
  BY InitMiner
<1>2. MinerInvariant /\ [Next]_vars => MinerInvariant'
  BY StepMiner
<1> QED
  BY <1>1, <1>2, PTL DEF Spec

(* No block leaves the miner that does not solve its own template, however *)
(* many templates are published while it is found, queued and sent.        *)
THEOREM BlocksAreSolutions == Spec => []BlocksSolveTheirTemplate
<1>1. MinerInvariant => BlocksSolveTheirTemplate
  BY DEF MinerInvariant
<1> QED
  BY <1>1, MinerInvariantHolds, PTL

(* No block that was found is lost while the connection is open.           *)
THEOREM FoundBlocksAreKept == Spec => []NoFoundBlockIsLost
<1>1. MinerInvariant => NoFoundBlockIsLost
  BY DEF MinerInvariant
<1> QED
  BY <1>1, MinerInvariantHolds, PTL

(* With any batch that divides the nonce space, 128 and 2^64 included, a   *)
(* thread computes no more than a batch of hashes for an old template.     *)
THEOREM StalenessIsBounded == Spec => []BoundedStaleness
<1>1. MinerInvariant => BoundedStaleness
  BY DEF MinerInvariant, StaleInBatch, BoundedStaleness
<1> QED
  BY <1>1, MinerInvariantHolds, PTL

(* is_synced and the slot never disagree once there was a template, so     *)
(* that no unsynced answer of kaspad is skipped while threads mine.        *)
THEOREM SyncedFollowsTheSlot == Spec => []SyncedMeansTemplate
<1>1. MinerInvariant => SyncedMeansTemplate
  BY DEF MinerInvariant
<1> QED
  BY <1>1, MinerInvariantHolds, PTL

-----------------------------------------------------------------------------
(* The threads as a pool: how many there are, and how many of them hash.   *)
(* A step changes each of the two sets by the thread that takes it.        *)
Alive == {t \in Threads : ~At(t, "exited")}

Hashing == {t \in Threads : state[t] # 0}

LEMMA PoolSets ==
  ASSUME TypeOK, MinesWhatItSaw
  PROVE  /\ IsFiniteSet(Alive) /\ Cardinality(Alive) \in Nat
         /\ IsFiniteSet(Hashing) /\ Cardinality(Hashing) \in Nat
         /\ Hashing \subseteq Alive
<1>1. Alive \in SUBSET Threads /\ Hashing \in SUBSET Threads
  BY DEF Alive, Hashing
<1>2. IsFiniteSet(Alive) /\ IsFiniteSet(Hashing)
  BY <1>1, FS_Subset, MinerAssumption
<1>3. Hashing \subseteq Alive
  BY DEF Alive, Hashing, TypeOK, ThreadTypeOK, SlotTypeOK, Slot!RegisterTypeOK,
         MinesWhatItSaw
<1>4. Cardinality(Alive) \in Nat
  BY <1>2, FS_CardinalityType
<1>5. Cardinality(Hashing) \in Nat
  BY <1>2, FS_CardinalityType
<1> QED
  BY <1>2, <1>3, <1>4, <1>5

(* A set with one more thread, and with one less.                          *)
LEMMA CountThread ==
  ASSUME NEW S, IsFiniteSet(S), NEW t
  PROVE  /\ t \notin S => Cardinality(S \cup {t}) = Cardinality(S) + 1
         /\ t \in S => Cardinality(S \ {t}) = Cardinality(S) - 1
         /\ t \in S => Cardinality(S) > 0
<1>1. Cardinality(S) \in Nat
  BY FS_CardinalityType
<1>2. t \in S => Cardinality(S) # 0
  BY FS_EmptySet
<1>3. t \notin S => Cardinality(S \cup {t}) = Cardinality(S) + 1
  BY FS_AddElement
<1>4. t \in S => Cardinality(S \ {t}) = Cardinality(S) - 1
  BY FS_RemoveElement
<1> QED
  BY <1>1, <1>2, <1>3, <1>4

(* The threads that hash are fewer if there is one that lives and does not.*)
LEMMA FewerHash ==
  ASSUME TypeOK, MinesWhatItSaw, NEW t \in Alive, t \notin Hashing
  PROVE  Cardinality(Hashing) < Cardinality(Alive)
<1>1. Hashing \in SUBSET Alive /\ Hashing # Alive
  BY PoolSets
<1>2. Cardinality(Hashing) <= Cardinality(Alive) /\ Cardinality(Alive) # Cardinality(Hashing)
  BY <1>1, PoolSets, FS_Subset
<1> QED
  BY <1>2, PoolSets

LEMMA InitPool == Init => MinersPool!Init
<1> SUFFICES ASSUME Init PROVE MinersPool!Init
  OBVIOUS
<1>1. Alive = Threads /\ Hashing = {}
  BY DEF Init, Alive, Hashing
<1>2. Cardinality(Hashing) = 0
  BY <1>1, FS_EmptySet
<1> QED
  BY <1>1, <1>2 DEF Init, MinersPool!Init, Alive, Hashing

(* The thread function returns: the pool is one thread smaller.            *)
LEMMA ExitEndsThread ==
  ASSUME TypeOK, MinesWhatItSaw, NEW t \in Threads, Exit(t),
         pc[t] # "exited", state[t] # 0, shutdown \/ ~open, UNCHANGED <<shutdown, open>>
  PROVE  MinersPool!EndThread
<1>1. t \in Alive /\ t \in Hashing
  BY DEF Alive, Hashing
<1>2. Alive' = Alive \ {t} /\ Hashing' = Hashing \ {t}
  BY DEF Alive, Hashing, Exit, TypeOK, ThreadTypeOK
<1>3. /\ Cardinality(Alive') = Cardinality(Alive) - 1
      /\ Cardinality(Hashing') = Cardinality(Hashing) - 1
      /\ Cardinality(Hashing) > 0
  BY <1>1, <1>2, PoolSets, CountThread
<1>4. UNCHANGED current
  BY DEF Exit, Slot!Drop
<1> QED
  BY <1>3, <1>4 DEF MinersPool!EndThread, Alive, Hashing

(* A step of one thread is one of the pool.                                *)
LEMMA ThreadStepsPool ==
  ASSUME TypeOK, MinesWhatItSaw, NEW t \in Threads, Thread(t)
  PROVE  [MinersPool!Next]_(MinersPool!vars)
<1> USE DEF TypeOK, SlotTypeOK, Slot!RegisterTypeOK, ThreadTypeOK, Labels
<1>1. CASE BeginWait(t) \/ HashNonce(t) \/ SendBlock(t) \/ CountBatch(t)
  <2>1. UNCHANGED <<current, state, shutdown, open>>
    BY <1>1 DEF BeginWait, HashNonce, SendBlock, CountBatch, slotVars, threadVars,
                processVars, Slot!Wait
  <2>2. pc[t] # "exited" /\ pc'[t] # "exited"
    BY <1>1 DEF BeginWait, HashNonce, SendBlock, CountBatch, Advance, threadVars
  <2>3. Alive' = Alive /\ Hashing' = Hashing
    BY <2>1, <2>2, SteadyBlock DEF Alive, Hashing
  <2> QED
    BY <2>1, <2>3 DEF MinersPool!vars, Alive, Hashing
<1>2. CASE EndWait(t)
  <2>1. state[t] = 0 /\ current # 0 /\ pc[t] = "top"
    BY <1>2 DEF EndWait, Slot!Return, MinesWhatItSaw
  <2>2. t \in Alive /\ t \notin Hashing
    BY <2>1 DEF Alive, Hashing
  <2>3. Alive' = Alive /\ Hashing' = Hashing \cup {t}
    BY <1>2, <2>1 DEF EndWait, Slot!Return, Alive, Hashing
  <2>4. Cardinality(Hashing') = Cardinality(Hashing) + 1
    BY <2>2, <2>3, PoolSets, CountThread
  <2>5. Cardinality(Hashing) < Cardinality(Alive)
    BY <2>2, FewerHash
  <2>6. UNCHANGED <<current, shutdown, open>>
    BY <1>2 DEF EndWait, Slot!Return, processVars
  <2> QED
    BY <2>1, <2>3, <2>4, <2>5, <2>6
    DEF MinersPool!Next, MinersPool!StartHashing, Alive, Hashing
<1>3. CASE SendFails(t)
  <2>1. state[t] # 0
    BY <1>3 DEF SendFails, MinesWhatItSaw
  <2>2. MinersPool!EndThread
    BY <1>3, <2>1, ExitEndsThread DEF SendFails, processVars
  <2> QED
    BY <2>2 DEF MinersPool!Next
<1>4. CASE CheckShutdown(t)
  <2>1. CASE shutdown
    <3>1. state[t] # 0
      BY <1>4 DEF CheckShutdown, MinesWhatItSaw
    <3>2. MinersPool!EndThread
      BY <1>4, <2>1, <3>1, ExitEndsThread DEF CheckShutdown, processVars
    <3> QED
      BY <3>2 DEF MinersPool!Next
  <2>2. CASE ~shutdown
    <3>1. UNCHANGED <<current, state, shutdown, open>> /\ pc' = [pc EXCEPT ![t] = "poll"]
      BY <1>4, <2>2 DEF CheckShutdown, slotVars, processVars
    <3>2. Alive' = Alive /\ Hashing' = Hashing
      BY <1>4, <3>1 DEF Alive, Hashing, CheckShutdown
    <3> QED
      BY <3>1, <3>2 DEF MinersPool!vars, Alive, Hashing
  <2> QED
    BY <2>1, <2>2
<1>5. CASE Poll(t)
  <2>1. /\ pc[t] = "poll" /\ pc' = [pc EXCEPT ![t] = "top"]
        /\ state' = [state EXCEPT ![t] = IF view[t] # current THEN current ELSE @]
        /\ UNCHANGED <<current, shutdown, open>>
    BY <1>5 DEF Poll, Slot!Look, processVars
  <2>2. t \in Hashing /\ Alive' = Alive
    BY <2>1 DEF Alive, Hashing, MinesWhatItSaw
  <2>3. CASE state'[t] # 0
    <3>1. Hashing' = Hashing
      BY <2>1, <2>2, <2>3 DEF Hashing
    <3> QED
      BY <2>1, <2>2, <3>1 DEF MinersPool!vars, Alive, Hashing
  <2>4. CASE state'[t] = 0
    <3>1. current = 0
      BY <2>1, <2>2, <2>4 DEF Hashing
    <3>2. Hashing' = Hashing \ {t}
      BY <2>1, <2>4 DEF Hashing
    <3>3. Cardinality(Hashing') = Cardinality(Hashing) - 1 /\ Cardinality(Hashing) > 0
      BY <2>2, <3>2, PoolSets, CountThread
    <3> QED
      BY <2>1, <2>2, <3>1, <3>3
      DEF MinersPool!Next, MinersPool!StopHashing, Alive, Hashing
  <2> QED
    BY <2>3, <2>4
<1> QED
  BY <1>1, <1>2, <1>3, <1>4, <1>5 DEF Thread

LEMMA StepPool ==
  MinerInvariant /\ [Next]_vars => [MinersPool!Next]_(MinersPool!vars)
<1> SUFFICES ASSUME MinerInvariant, [Next]_vars
             PROVE  [MinersPool!Next]_(MinersPool!vars)
  OBVIOUS
<1>1. TypeOK /\ MinesWhatItSaw
  BY DEF MinerInvariant
<1>2. CASE UNCHANGED <<current, threadVars, shutdown, open>>
  BY <1>2 DEF threadVars, MinersPool!vars
<1>3. CASE ProcessBlock
  <2>1. UNCHANGED <<threadVars, shutdown, open>> /\ current' # 0
    BY <1>1, <1>3 DEF ProcessBlock, Slot!Publish, processVars, TypeOK, SlotTypeOK,
                      Slot!RegisterTypeOK
  <2>2. MinersPool!FillSlot
    BY <2>1 DEF MinersPool!FillSlot, threadVars
  <2> QED
    BY <2>2 DEF MinersPool!Next
<1>4. CASE ProcessNone
  <2>1. UNCHANGED <<threadVars, shutdown, open>> /\ current' = 0
    BY <1>4 DEF ProcessNone, Slot!Clear, processVars
  <2>2. MinersPool!EmptySlot
    BY <2>1 DEF MinersPool!EmptySlot, threadVars
  <2> QED
    BY <2>2 DEF MinersPool!Next
<1>5. CASE MainReturns
  <2>1. UNCHANGED <<current, threadVars, open>> /\ shutdown' = TRUE
    BY <1>5 DEF MainReturns, slotVars
  <2>2. MinersPool!ShutDown
    BY <2>1 DEF MinersPool!ShutDown, threadVars
  <2> QED
    BY <2>2 DEF MinersPool!Next
<1>6. CASE Disconnect
  <2>1. UNCHANGED <<current, threadVars, shutdown>> /\ open' = FALSE
    BY <1>6 DEF Disconnect, slotVars
  <2>2. MinersPool!Disconnect
    BY <2>1 DEF MinersPool!Disconnect, threadVars
  <2> QED
    BY <2>2 DEF MinersPool!Next
<1>7. ASSUME NEW t \in Threads, Thread(t) PROVE [MinersPool!Next]_(MinersPool!vars)
  BY <1>1, <1>7, ThreadStepsPool
<1>8. CASE ProcessBadBlock \/ DropManager \/ LogHashrate \/ Deliver \/ UNCHANGED vars
  BY <1>2, <1>8 DEF ProcessBadBlock, DropManager, LogHashrate, Deliver, vars, slotVars,
                    processVars
<1> QED
  BY <1>3, <1>4, <1>5, <1>6, <1>7, <1>8 DEF Next

(* Whatever manager, connection and threads do, to the rest of the process *)
(* it is a pool: none of its threads starts to hash while the slot is      *)
(* empty, goes back to waiting while it is not, or ends while connection   *)
(* and process go on.                                                      *)
THEOREM ThreadsArePool == Spec => ImplementsPool
<1>1. Init => MinersPool!Init
  BY InitPool
<1>2. MinerInvariant /\ [Next]_vars => [MinersPool!Next]_(MinersPool!vars)
  BY StepPool
<1> QED
  BY <1>1, <1>2, MinerInvariantHolds, PTL DEF Spec, ImplementsPool, MinersPool!Spec

-----------------------------------------------------------------------------
(* Counting.  When one of the summands changes, the sum does, as much.     *)
LEMMA UnitsOfOne ==
  ASSUME NEW t, NEW n \in Nat
  PROVE  IsFiniteSet({t} \X (1..n)) /\ Cardinality({t} \X (1..n)) = n
<1>1. IsFiniteSet({t}) /\ Cardinality({t}) = 1
  BY FS_Singleton
<1>2. IsFiniteSet(1..n)
  BY FS_Interval
<1>3. Cardinality(1..n) = n
  BY FS_Interval
<1>4. Cardinality({t} \X (1..n)) = 1 * n
  BY <1>1, <1>2, <1>3, FS_Product
<1>5. IsFiniteSet({t} \X (1..n))
  BY <1>1, <1>2, FS_Product
<1> QED
  BY <1>4, <1>5

LEMMA UnitsFinite ==
  ASSUME NEW m \in Nat, NEW f \in [Threads -> 0..m]
  PROVE  IsFiniteSet(Units(f)) /\ Sum(f) \in Nat
<1>1. Units(f) \in SUBSET (Threads \X (1..m))
  BY DEF Units
<1>2. IsFiniteSet(1..m)
  BY FS_Interval
<1>3. IsFiniteSet(Threads \X (1..m))
  BY <1>2, FS_Product, MinerAssumption
<1>4. IsFiniteSet(Units(f))
  BY <1>1, <1>3, FS_Subset
<1> QED
  BY <1>4, FS_CardinalityType DEF Sum

(* The sum is what one thread adds to that of the others.                  *)
LEMMA SumSplit ==
  ASSUME NEW m \in Nat, NEW f \in [Threads -> 0..m], NEW t \in Threads
  PROVE  Sum(f) = Cardinality(UNION {{u} \X (1..f[u]) : u \in Threads \ {t}}) + f[t]
<1> DEFINE R == UNION {{u} \X (1..f[u]) : u \in Threads \ {t}}
           Own == {t} \X (1..f[t])
<1>1. Units(f) = R \cup Own
  BY DEF Units
<1>2. R \cap Own = {}
  OBVIOUS
<1>3. IsFiniteSet(R)
  <2>1. R \in SUBSET Units(f)
    BY DEF Units
  <2> QED
    BY <2>1, UnitsFinite, FS_Subset
<1>4. IsFiniteSet(Own) /\ Cardinality(Own) = f[t]
  <2>1. f[t] \in Nat
    OBVIOUS
  <2> QED
    BY <2>1, UnitsOfOne
<1> HIDE DEF R, Own
<1>5. Cardinality(R \cup Own) = Cardinality(R) + Cardinality(Own) - Cardinality(R \cap Own)
  BY <1>3, <1>4, FS_Union
<1>6. Cardinality(R \cap Own) = 0
  BY <1>2, FS_EmptySet
<1>7. Cardinality(R) \in Nat
  BY <1>3, FS_CardinalityType
<1>8. Cardinality(R \cup Own) = Cardinality(R) + f[t]
  BY <1>4, <1>5, <1>6, <1>7
<1> QED
  BY <1>1, <1>8 DEF R, Sum

LEMMA SumChange ==
  ASSUME NEW m \in Nat, NEW f \in [Threads -> 0..m], NEW g \in [Threads -> 0..m],
         NEW t \in Threads, \A u \in Threads : u # t => g[u] = f[u]
  PROVE  Sum(g) = Sum(f) - f[t] + g[t]
<1> DEFINE R(h) == UNION {{u} \X (1..h[u]) : u \in Threads \ {t}}
<1>1. R(f) = R(g)
  OBVIOUS
<1>2. Sum(f) = Cardinality(R(f)) + f[t]
  BY SumSplit
<1>3. Sum(g) = Cardinality(R(g)) + g[t]
  BY SumSplit
<1>4. Cardinality(R(f)) \in Nat
  <2>1. R(f) \in SUBSET Units(f)
    BY DEF Units
  <2>2. IsFiniteSet(R(f))
    BY <2>1, UnitsFinite, FS_Subset
  <2> QED
    BY <2>2, FS_CardinalityType
<1> HIDE DEF R
<1> QED
  BY <1>1, <1>2, <1>3, <1>4

(* What every thread has in its batch.                                     *)
Batches == [u \in Threads |-> InBatch(u)]

LEMMA BatchesType ==
  ASSUME TypeOK
  PROVE  /\ Batches \in [Threads -> 0..2*Batch] /\ Sum(Batches) \in Nat
         /\ start \in [Threads -> 0..2*Batch] /\ Sum(start) \in Nat
<1> USE ConstantFacts
<1>1. \A u \in Threads : nonce[u] % Batch \in 0..Batch-1
  BY NextNonce DEF TypeOK, ThreadTypeOK
<1>2. Batches \in [Threads -> 0..2*Batch]
  BY <1>1 DEF Batches, InBatch
<1>3. start \in [Threads -> 0..2*Batch]
  BY DEF TypeOK, CountersTypeOK
<1>4. 2 * Batch \in Nat
  OBVIOUS
<1>5. Sum(Batches) \in Nat
  BY <1>2, <1>4, UnitsFinite
<1>6. Sum(start) \in Nat
  BY <1>3, <1>4, UnitsFinite
<1> QED
  BY <1>2, <1>3, <1>5, <1>6

(* A thread's step changes what all have by what it changes its own by.    *)
LEMMA BatchesChange ==
  ASSUME TypeOK, TypeOK', NEW t \in Threads, Thread(t)
  PROVE  Sum(Batches)' = Sum(Batches) - InBatch(t) + InBatch(t)'
<1> DEFINE f == Batches
           g == Batches'
<1>1. 2 * Batch \in Nat
  BY ConstantFacts
<1>2. f \in [Threads -> 0..2*Batch]
  BY BatchesType
<1>3. g \in [Threads -> 0..2*Batch]
  <2>1. \A u \in Threads : nonce'[u] % Batch \in 0..Batch-1
    BY NextNonce DEF TypeOK, ThreadTypeOK
  <2> QED
    BY <2>1, ConstantFacts DEF Batches, InBatch
<1>4. \A u \in Threads : u # t => g[u] = f[u]
  BY SteadyBlock DEF Batches, InBatch, TypeOK
<1>5. f[t] = InBatch(t) /\ g[t] = InBatch(t)'
  BY DEF Batches
<1>6. Sum(Batches)' = Sum(g)
  BY DEF Sum, Units
<1> HIDE DEF f, g
<1>7. Sum(g) = Sum(f) - f[t] + g[t]
  BY <1>1, <1>2, <1>3, <1>4, SumChange
<1> QED
  BY <1>5, <1>6, <1>7 DEF f

(* Moving to the next nonce adds one, also where the batch ends.           *)
LEMMA AdvanceCounts ==
  ASSUME TypeOK, NEW t \in Threads, Advance(t), pc[t] # "count"
  PROVE  InBatch(t)' = InBatch(t) + 1
<1> USE ConstantFacts
<1>1. nonce[t] \in Nonces /\ pc \in [Threads -> Labels] /\ nonce \in [Threads -> Nonces]
  BY DEF TypeOK, ThreadTypeOK
<1> DEFINE r == nonce[t] % Batch
           s == ((nonce[t] + 1) % NonceSpace) % Batch
<1>2. r \in 0..Batch-1 /\ s = IF r = Batch - 1 THEN 0 ELSE r + 1
  BY <1>1, NextNonce
<1>3. nonce'[t] % Batch = s /\ pc'[t] = IF s = 0 THEN "count" ELSE "top"
  BY <1>1 DEF Advance, BatchComplete
<1>4. InBatch(t) = r /\ InBatch(t)' = IF s = 0 THEN s + Batch ELSE s
  BY <1>2, <1>3 DEF InBatch
<1> HIDE DEF r, s
<1> QED
  BY <1>2, <1>4

(* The steps that move what was hashed: one more nonce is tried, or a      *)
(* batch is counted; the rest leaves all of it alone.                      *)
LEMMA ThreadCounts ==
  ASSUME TypeOK, NEW t \in Threads, Thread(t)
  PROVE  /\ start' = start
         /\ \/ /\ unreported' = (unreported + 1) % CounterSpace
               /\ InBatch(t)' = InBatch(t) + 1
               /\ hashesTried' = hashesTried
            \/ /\ hashesTried' = (hashesTried + Batch) % CounterSpace
               /\ InBatch(t)' = InBatch(t) - Batch
               /\ unreported' = unreported
            \/ /\ InBatch(t)' = InBatch(t)
               /\ UNCHANGED <<unreported, hashesTried>>
<1> USE DEF TypeOK, ThreadTypeOK
<1>1. start' = start
  BY DEF Thread, BeginWait, EndWait, HashNonce, SendBlock, SendFails, CountBatch,
         CheckShutdown, Poll, historyVars
<1>2. CASE HashNonce(t) /\ Solves(state[t], nonce[t])
  <2>1. InBatch(t)' = InBatch(t) /\ UNCHANGED <<unreported, hashesTried>>
    BY <1>2 DEF HashNonce, InBatch
  <2> QED
    BY <1>1, <2>1
<1>3. CASE (HashNonce(t) /\ ~Solves(state[t], nonce[t])) \/ SendBlock(t)
  <2>1. Advance(t) /\ pc[t] # "count" /\ hashesTried' = hashesTried
    BY <1>3 DEF HashNonce, SendBlock
  <2>2. InBatch(t)' = InBatch(t) + 1
    BY <2>1, AdvanceCounts
  <2> QED
    BY <1>1, <2>1, <2>2 DEF Advance
<1>4. CASE CountBatch(t)
  <2>1. /\ pc[t] = "count" /\ pc'[t] = "check" /\ nonce' = nonce
        /\ hashesTried' = (hashesTried + Batch) % CounterSpace
        /\ unreported' = unreported
    BY <1>4 DEF CountBatch, historyVars
  <2>2. nonce[t] % Batch \in 0..Batch-1 /\ Batch \in Nat
    BY NextNonce, ConstantFacts
  <2>3. InBatch(t)' = InBatch(t) - Batch
    BY <2>1, <2>2 DEF InBatch
  <2> QED
    BY <1>1, <2>1, <2>3
<1>5. CASE BeginWait(t) \/ EndWait(t) \/ SendFails(t) \/ CheckShutdown(t) \/ Poll(t)
  <2>1. /\ pc[t] # "count" /\ pc'[t] # "count" /\ nonce' = nonce
        /\ UNCHANGED <<unreported, hashesTried>>
    BY <1>5 DEF BeginWait, EndWait, SendFails, CheckShutdown, Poll, Exit, threadVars,
                historyVars
  <2> QED
    BY <1>1, <2>1 DEF InBatch
<1> QED
  BY <1>2, <1>3, <1>4, <1>5 DEF Thread

LEMMA CountedIsBalanced ==
  HashesAreCounted <=>
    Balanced(CounterSpace, unreported, Sum(start), hashesTried, Sum(Batches))
BY DEF HashesAreCounted, Batches, Balanced

LEMMA StepCounted ==
  ASSUME TypeOK, TypeOK', HashesAreCounted, [Next]_vars
  PROVE  HashesAreCounted'
<1>1. /\ unreported \in Int /\ hashesTried \in Int /\ CounterSpace \in Nat \ {0}
      /\ Sum(start) \in Int /\ Sum(Batches) \in Int /\ Batch \in Int
  BY BatchesType, ConstantFacts DEF TypeOK, CountersTypeOK
<1>2. Balanced(CounterSpace, unreported, Sum(start), hashesTried, Sum(Batches))
  BY CountedIsBalanced
<1>3. /\ Balanced(CounterSpace, (unreported + 1) % CounterSpace, Sum(start),
                  hashesTried, Sum(Batches) + 1)
      /\ Balanced(CounterSpace, unreported, Sum(start),
                  (hashesTried + Batch) % CounterSpace, Sum(Batches) - Batch)
      /\ Balanced(CounterSpace, (unreported - hashesTried) % CounterSpace, Sum(start),
                  0, Sum(Batches))
  BY <1>1, <1>2, Balance
<1>4. SUFFICES Balanced(CounterSpace, unreported', Sum(start)', hashesTried', Sum(Batches)')
  BY DEF HashesAreCounted, Batches, Balanced
<1>5. CASE UNCHANGED <<unreported, hashesTried, start, pc, nonce>>
  <2>1. Sum(start)' = Sum(start) /\ Sum(Batches)' = Sum(Batches)
    BY <1>5 DEF Sum, Units, Batches, InBatch
  <2> QED
    BY <1>2, <1>5, <2>1
<1>6. CASE LogHashrate
  <2>1. Sum(start)' = Sum(start) /\ Sum(Batches)' = Sum(Batches)
    BY <1>6 DEF LogHashrate, threadVars, Sum, Units, Batches, InBatch
  <2> QED
    BY <1>3, <1>6, <2>1 DEF LogHashrate
<1>7. ASSUME NEW t \in Threads, Thread(t)
      PROVE  Balanced(CounterSpace, unreported', Sum(start)', hashesTried', Sum(Batches)')
  <2>1. Sum(Batches)' = Sum(Batches) - InBatch(t) + InBatch(t)'
    BY <1>7, BatchesChange
  <2>2. InBatch(t) \in Int
    BY BatchesType DEF Batches
  <2>3. Sum(start)' = Sum(start)
    BY <1>7, ThreadCounts DEF Sum, Units
  <2>4. CASE /\ unreported' = (unreported + 1) % CounterSpace
             /\ InBatch(t)' = InBatch(t) + 1 /\ hashesTried' = hashesTried
    <3>1. Sum(Batches)' = Sum(Batches) + 1
      BY <1>1, <2>1, <2>2, <2>4
    <3> QED
      BY <1>3, <2>3, <2>4, <3>1
  <2>5. CASE /\ hashesTried' = (hashesTried + Batch) % CounterSpace
             /\ InBatch(t)' = InBatch(t) - Batch /\ unreported' = unreported
    <3>1. Sum(Batches)' = Sum(Batches) - Batch
      BY <1>1, <2>1, <2>2, <2>5
    <3> QED
      BY <1>3, <2>3, <2>5, <3>1
  <2>6. CASE InBatch(t)' = InBatch(t) /\ UNCHANGED <<unreported, hashesTried>>
    <3>1. Sum(Batches)' = Sum(Batches)
      BY <1>1, <2>1, <2>2, <2>6
    <3> QED
      BY <1>2, <2>3, <2>6, <3>1
  <2> QED
    BY <1>7, <2>4, <2>5, <2>6, ThreadCounts
<1> QED
  BY <1>5, <1>6, <1>7
  DEF Next, vars, ProcessBlock, ProcessBadBlock, ProcessNone, DropManager, MainReturns,
      Deliver, Disconnect, threadVars, historyVars

(* Whatever the logger takes and however the threads interleave, a hash is *)
(* reported once or still counted: what the reports miss or invent is in   *)
(* the threads' first and current batches.                                 *)
THEOREM ReportsCountHashes == Spec => []HashesAreCounted
<1>1. Init => HashesAreCounted
  <2> SUFFICES ASSUME Init PROVE HashesAreCounted
    OBVIOUS
  <2>1. TypeOK
    BY InitTypeOK
  <2>2. \A t \in Threads : nonce[t] % Batch \in Int
    BY <2>1, NextNonce DEF TypeOK, ThreadTypeOK
  <2>3. Batches = start
    BY <2>2 DEF Init, Batches, InBatch
  <2> QED
    BY <2>3, CountedIsBalanced DEF Init, Balanced
<1>2. MinerInvariant /\ MinerInvariant' /\ HashesAreCounted /\ [Next]_vars
        => HashesAreCounted'
  BY StepCounted DEF MinerInvariant
<1> QED
  BY <1>1, <1>2, MinerInvariantHolds, PTL DEF Spec
=============================================================================
