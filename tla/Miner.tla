------------------------------- MODULE Miner -------------------------------
(***************************************************************************)
(* The mining side of one connection (src/miner.rs): the MinerManager that *)
(* hands the templates of kaspad to its threads, the threads that hash     *)
(* them, the bounded channel through which found blocks leave, and the     *)
(* task that reports the hash rate.                                        *)
(*                                                                         *)
(* The WatchSwap between manager and threads is taken at the level of its  *)
(* abstract specification WatchRegister, which WatchSwap is shown to       *)
(* implement: template k is the k-th one published, 0 is "no template".    *)
(*                                                                         *)
(* A thread is separated into steps at each access to shared state:        *)
(*                                                                         *)
(*   top    wait for a template if there is none, else hash one nonce      *)
(*   send   a block was found; blocking_send                               *)
(*   count  a batch is complete; hashes_tried.fetch_add                    *)
(*   check  is_shutdown                                                    *)
(*   poll   get_changed                                                    *)
(*   exited the thread function has returned (its handle is never joined)  *)
(*                                                                         *)
(* The throttle sleep at the end of the loop changes no state.             *)
(***************************************************************************)
EXTENDS Integers, Sequences, FiniteSets, SequencesExt

CONSTANTS
  Threads,      \* the mining threads of this manager
  NonceSpace,   \* number of nonces; 2^64 in the code
  Batch,        \* nonces between two looks at the slot; 128 in the code
  CounterSpace, \* values of the hashes_tried counter; 2^64 in the code
  ChannelCap,   \* capacity of the mpsc channel; 3 in the code
  Solutions,    \* the pairs <<template, nonce>> whose hash meets the target
  MaxTemplates  \* bound: templates published on this connection

Nonces == 0..NonceSpace-1

Templates == 1..MaxTemplates

ASSUME MinerAssumption ==
  /\ Threads # {} /\ IsFiniteSet(Threads)
  /\ Batch \in Nat \ {0}
  /\ NonceSpace \in Nat \ {0} /\ NonceSpace % Batch = 0
  /\ CounterSpace \in Nat \ {0} /\ CounterSpace % Batch = 0
  /\ ChannelCap \in Nat \ {0}
  /\ MaxTemplates \in Nat \ {0}
  /\ Solutions \subseteq Templates \X Nonces

VARIABLES
  (* the shared slot, a WatchSwap<pow::State> *)
  published, current, live, view, blocked,
  (* MinerManager *)
  managed,      \* the MinerManager exists (it is dropped with its connection)
  isSynced,     \* MinerManager.is_synced
  hashesTried,  \* MinerManager.hashes_tried
  (* the threads *)
  pc, state, nonce,
  (* the rest of the process *)
  shutdown,     \* the flag of the ShutdownHandler
  open,         \* the connection still holds the receiving end of the channel
  channel,      \* blocks sent and not yet taken by the connection
  (* history, used by the properties only *)
  start,        \* start[t]: how far into a batch the first nonce of t was
  unreported,   \* nonces tried and not reported yet, modulo CounterSpace
  stale,        \* stale[t]: hashes t computed since the slot differs from its view
  found,        \* blocks found by any thread
  delivered     \* blocks taken by the connection

slotVars == <<published, current, live, view, blocked>>
managerVars == <<managed, isSynced>>
threadVars == <<pc, state, nonce>>
processVars == <<shutdown, open, channel>>
historyVars == <<start, unreported, stale, found, delivered>>

vars == <<slotVars, managerVars, hashesTried, threadVars, processVars, historyVars>>

Slot == INSTANCE WatchRegister WITH Handles <- Threads

Labels == {"top", "send", "count", "check", "poll", "exited"}

Blocks == [template : Templates, nonce : Nonces]

SlotTypeOK == Slot!RegisterTypeOK /\ published \in 0..MaxTemplates

FlagsTypeOK ==
  /\ managed \in BOOLEAN /\ isSynced \in BOOLEAN
  /\ shutdown \in BOOLEAN /\ open \in BOOLEAN

ThreadTypeOK ==
  /\ pc \in [Threads -> Labels]
  /\ state \in [Threads -> 0..MaxTemplates]
  /\ nonce \in [Threads -> Nonces]

BlocksTypeOK ==
  /\ channel \in Seq(Blocks) /\ Len(channel) <= ChannelCap
  /\ found \subseteq Blocks /\ delivered \subseteq Blocks

CountersTypeOK ==
  /\ hashesTried \in 0..CounterSpace-1
  /\ unreported \in 0..CounterSpace-1
  /\ start \in [Threads -> 0..Batch-1]
  /\ stale \in [Threads -> Nat]

TypeOK ==
  SlotTypeOK /\ FlagsTypeOK /\ ThreadTypeOK /\ BlocksTypeOK /\ CountersTypeOK

-----------------------------------------------------------------------------
(* MinerManager::new: an empty slot of which every thread has a clone; each*)
(* thread starts at a random nonce.                                        *)
Init ==
  /\ published = 0 /\ current = 0
  /\ live = Threads /\ blocked = {}
  /\ view = [t \in Threads |-> 0]
  /\ managed = TRUE /\ isSynced = TRUE
  /\ hashesTried = 0
  /\ pc = [t \in Threads |-> "top"]
  /\ state = [t \in Threads |-> 0]
  /\ nonce \in [Threads -> Nonces]
  /\ shutdown = FALSE /\ open = TRUE
  /\ channel = <<>>
  /\ start = [t \in Threads |-> nonce[t] % Batch]
  /\ unreported = 0
  /\ stale = [t \in Threads |-> 0]
  /\ found = {} /\ delivered = {}

-----------------------------------------------------------------------------
(* Mutant of ProcessBlock: a template does not end the unsynced state.     *)
ProcessBlockStaysUnsynced ==
  /\ managed
  /\ published < MaxTemplates
  /\ Slot!Publish
  /\ UNCHANGED <<managerVars, hashesTried, threadVars, processVars, historyVars>>

(* MinerManager::process_block.  The manager is alive while the connection *)
(* is listened to.                                                         *)
ProcessBlock ==
  /\ managed
  /\ published < MaxTemplates
  /\ isSynced' = TRUE
  /\ Slot!Publish
  /\ UNCHANGED <<managed, hashesTried, threadVars, processVars, historyVars>>

(* The template, without a header, cannot be made into a State: is_synced  *)
(* is set all the same, and the error goes through listen to main, which   *)
(* drops the manager on its way out.                                       *)
ProcessBadBlock ==
  /\ managed
  /\ isSynced' = TRUE
  /\ managed' = FALSE
  /\ UNCHANGED <<slotVars, hashesTried, threadVars, processVars, historyVars>>

(* kaspad is not synced: the slot is emptied, once.                        *)
ProcessNone ==
  /\ managed
  /\ isSynced
  /\ isSynced' = FALSE
  /\ Slot!Clear
  /\ UNCHANGED <<managed, hashesTried, threadVars, processVars, historyVars>>

(* listen returns: main drops the manager, and starts over or returns.  The*)
(* threads are not joined: they keep running.                              *)
DropManager ==
  /\ managed
  /\ managed' = FALSE
  /\ UNCHANGED <<slotVars, isSynced, hashesTried, threadVars, processVars, historyVars>>

(* main returns, at once or when a later connection fails, and drops its   *)
(* ShutdownOnDrop; threads may run on until the process is gone.           *)
MainReturns ==
  /\ ~managed
  /\ ~shutdown
  /\ shutdown' = TRUE
  /\ UNCHANGED <<slotVars, managerVars, hashesTried, threadVars, open, channel, historyVars>>

(* log_hashrate takes what was counted since its last tick; the task is    *)
(* aborted with the manager.                                               *)
LogHashrate ==
  /\ managed
  /\ hashesTried' = 0
  /\ unreported' = (unreported - hashesTried) % CounterSpace
  /\ UNCHANGED <<slotVars, managerVars, threadVars, processVars,
                 start, stale, found, delivered>>

-----------------------------------------------------------------------------
(* The connection takes messages from the channel and sends them to kaspad;*)
(* when it is lost, the receiving end is dropped with what it holds.       *)
Deliver ==
  /\ open
  /\ channel # <<>>
  /\ channel' = Tail(channel)
  /\ delivered' = delivered \cup {Head(channel)}
  /\ UNCHANGED <<slotVars, managerVars, hashesTried, threadVars, shutdown, open,
                 start, unreported, stale, found>>

Disconnect ==
  /\ open
  /\ open' = FALSE
  /\ channel' = <<>>
  /\ UNCHANGED <<slotVars, managerVars, hashesTried, threadVars, shutdown, historyVars>>

-----------------------------------------------------------------------------
(* One mining thread.                                                      *)
At(t, label) == pc[t] = label

Goto(t, label) == pc' = [pc EXCEPT ![t] = label]

(* pow::State::check_pow of the thread's state at the thread's nonce.      *)
Solves(k, n) == <<k, n>> \in Solutions

(* Mutant of BlockOf: the nonce put into the newest template.              *)
BlockOfNewest(t) == [template |-> current, nonce |-> nonce[t]]

(* generate_block_if_pow: the block of the thread's own template.          *)
BlockOf(t) == [template |-> state[t], nonce |-> nonce[t]]

(* Mutant of BatchComplete: looking only when the nonce starts over.       *)
NonceWrapped(n) == n = 0

BatchComplete(n) == n % Batch = 0

(* Mutant of Advance: a nonce that does not wrap around.                   *)
AdvanceUnwrapped(t) ==
  /\ nonce' = [nonce EXCEPT ![t] = @ + 1]
  /\ unreported' = (unreported + 1) % CounterSpace
  /\ Goto(t, IF BatchComplete(nonce'[t]) THEN "count" ELSE "top")

(* nonce += 1, and what comes next in the loop.                            *)
Advance(t) ==
  /\ nonce' = [nonce EXCEPT ![t] = (@ + 1) % NonceSpace]
  /\ unreported' = (unreported + 1) % CounterSpace
  /\ Goto(t, IF BatchComplete(nonce'[t]) THEN "count" ELSE "top")

(* The thread function returns: its handle of the slot goes with it.       *)
Exit(t) ==
  /\ Goto(t, "exited")
  /\ state' = [state EXCEPT ![t] = 0]
  /\ Slot!Drop(t)

BeginWait(t) ==
  /\ At(t, "top") /\ state[t] = 0
  /\ Slot!Wait(t)
  /\ UNCHANGED <<managerVars, hashesTried, threadVars, processVars, historyVars>>

(* wait_for_change returns; with no template after all, the loop goes back *)
(* to waiting.                                                             *)
EndWait(t) ==
  /\ At(t, "top")
  /\ Slot!Return(t)
  /\ state' = [state EXCEPT ![t] = current]
  /\ stale' = [stale EXCEPT ![t] = 0]
  /\ UNCHANGED <<managerVars, hashesTried, pc, nonce, processVars,
                 start, unreported, found, delivered>>

HashNonce(t) ==
  /\ At(t, "top") /\ state[t] # 0
  /\ stale' = [stale EXCEPT ![t] = IF view[t] = current THEN 0 ELSE @ + 1]
  /\ \/ /\ Solves(state[t], nonce[t])
        /\ found' = found \cup {BlockOf(t)}
        /\ Goto(t, "send")
        /\ UNCHANGED <<nonce, unreported>>
     \/ /\ ~Solves(state[t], nonce[t])
        /\ Advance(t)
        /\ UNCHANGED found
  /\ UNCHANGED <<slotVars, managerVars, hashesTried, state, processVars, start, delivered>>

(* Mutant of SendBlock: try_send, whose error is ignored.                  *)
TrySendBlock(t) ==
  /\ At(t, "send")
  /\ open
  /\ channel' = IF Len(channel) < ChannelCap THEN Append(channel, BlockOf(t)) ELSE channel
  /\ Advance(t)
  /\ UNCHANGED <<slotVars, managerVars, hashesTried, state, shutdown, open,
                 start, stale, found, delivered>>

(* Mutant of SendBlock: a full channel ends the thread.                    *)
TrySendOrEnd(t) ==
  /\ At(t, "send")
  /\ open
  /\ \/ /\ Len(channel) < ChannelCap
        /\ channel' = Append(channel, BlockOf(t))
        /\ Advance(t)
        /\ UNCHANGED <<slotVars, state>>
     \/ /\ Len(channel) = ChannelCap
        /\ Exit(t)
        /\ UNCHANGED <<channel, nonce, unreported>>
  /\ UNCHANGED <<managerVars, hashesTried, shutdown, open,
                 start, stale, found, delivered>>

(* found_block waits for room in the channel, and the loop goes on.        *)
SendBlock(t) ==
  /\ At(t, "send")
  /\ open /\ Len(channel) < ChannelCap
  /\ channel' = Append(channel, BlockOf(t))
  /\ Advance(t)
  /\ UNCHANGED <<slotVars, managerVars, hashesTried, state, shutdown, open,
                 start, stale, found, delivered>>

(* The receiver is gone: blocking_send fails and the thread ends with it.  *)
SendFails(t) ==
  /\ At(t, "send")
  /\ ~open
  /\ Exit(t)
  /\ UNCHANGED <<managerVars, hashesTried, nonce, processVars, historyVars>>

(* Mutant of CountBatch: the counter counts batches, not nonces.           *)
CountOne(t) ==
  /\ At(t, "count")
  /\ hashesTried' = (hashesTried + 1) % CounterSpace
  /\ Goto(t, "check")
  /\ UNCHANGED <<slotVars, managerVars, state, nonce, processVars, historyVars>>

CountBatch(t) ==
  /\ At(t, "count")
  /\ hashesTried' = (hashesTried + Batch) % CounterSpace
  /\ Goto(t, "check")
  /\ UNCHANGED <<slotVars, managerVars, state, nonce, processVars, historyVars>>

(* Mutant of CheckShutdown: the flag is not looked at.                     *)
IgnoreShutdown(t) ==
  /\ At(t, "check")
  /\ Goto(t, "poll")
  /\ UNCHANGED <<slotVars, managerVars, hashesTried, state, nonce, processVars, historyVars>>

CheckShutdown(t) ==
  /\ At(t, "check")
  /\ \/ /\ shutdown
        /\ Exit(t)
     \/ /\ ~shutdown
        /\ Goto(t, "poll")
        /\ UNCHANGED <<slotVars, state>>
  /\ UNCHANGED <<managerVars, hashesTried, nonce, processVars, historyVars>>

(* Mutant of Poll: an emptied slot does not stop the thread.               *)
PollTemplatesOnly(t) ==
  /\ At(t, "poll")
  /\ state' = [state EXCEPT ![t] = IF current # 0 THEN current ELSE @]
  /\ stale' = [stale EXCEPT ![t] = 0]
  /\ Slot!Look(t)
  /\ Goto(t, "top")
  /\ UNCHANGED <<managerVars, hashesTried, nonce, processVars,
                 start, unreported, found, delivered>>

(* get_changed: a changed slot replaces the state, also by no template.    *)
Poll(t) ==
  /\ At(t, "poll")
  /\ state' = [state EXCEPT ![t] = IF view[t] # current THEN current ELSE @]
  /\ stale' = [stale EXCEPT ![t] = 0]
  /\ Slot!Look(t)
  /\ Goto(t, "top")
  /\ UNCHANGED <<managerVars, hashesTried, nonce, processVars,
                 start, unreported, found, delivered>>

Thread(t) ==
  \/ BeginWait(t) \/ EndWait(t) \/ HashNonce(t)
  \/ SendBlock(t) \/ SendFails(t)
  \/ CountBatch(t) \/ CheckShutdown(t) \/ Poll(t)

Next ==
  \/ ProcessBlock \/ ProcessBadBlock \/ ProcessNone \/ DropManager \/ MainReturns
  \/ LogHashrate
  \/ Deliver \/ Disconnect
  \/ \E t \in Threads : Thread(t)

Spec == Init /\ [][Next]_vars

(* Threads run; blocking_send queues for room in a fair semaphore; and an  *)
(* open connection takes what is sent.  Nothing is assumed of kaspad, of   *)
(* the manager or of the logger.                                           *)
Fairness ==
  /\ \A t \in Threads :
       /\ WF_vars(BeginWait(t) \/ EndWait(t) \/ HashNonce(t) \/ SendFails(t)
                    \/ CountBatch(t) \/ CheckShutdown(t) \/ Poll(t))
       /\ SF_vars(SendBlock(t))
  /\ WF_vars(Deliver)

FairSpec == Spec /\ Fairness

-----------------------------------------------------------------------------
(* What a thread mines is what it last saw in the slot; a thread that waits*)
(* or has ended has nothing to mine, and what it waits for is a template:  *)
(* the "no template after all" branch after wait_for_change is never taken.*)
MinesWhatItSaw ==
  \A t \in Threads :
    /\ state[t] = view[t]
    /\ At(t, "exited") <=> t \notin live
    /\ At(t, "exited") => state[t] = 0
    /\ t \in blocked => At(t, "top") /\ state[t] = 0
    /\ At(t, "send") \/ At(t, "count") \/ At(t, "check") \/ At(t, "poll") => state[t] # 0

(* Every block that is found, queued or sent solves its own template, even *)
(* when the slot changes while the block waits for room in the channel.    *)
BlocksSolveTheirTemplate ==
  \A b \in found \cup delivered \cup ToSet(channel) : Solves(b.template, b.nonce)

(* To the rest of the process the threads are a pool: however their steps  *)
(* interleave with templates, losses and shutdown, none starts to hash     *)
(* while the slot is empty, goes back to waiting while it is not, or ends  *)
(* while the connection and the process go on.                             *)
MinersPool == INSTANCE Pool WITH
  Size <- Cardinality(Threads),
  slot <- current # 0,
  threads <- Cardinality({t \in Threads : ~At(t, "exited")}),
  hashing <- Cardinality({t \in Threads : state[t] # 0})

ImplementsPool == MinersPool!Spec

(* While the connection is open no found block is lost: it is delivered,   *)
(* in the channel, or with the thread that waits for room.                 *)
NoFoundBlockIsLost ==
  open => found \subseteq delivered \cup ToSet(channel)
                            \cup {BlockOf(t) : t \in {u \in Threads : At(u, "send")}}

(* A thread hashes at most one batch of a template that is not the newest, *)
(* or of any template once the slot is empty.                              *)
BoundedStaleness == \A t \in Threads : stale[t] <= Batch

(* What the three properties above rest on: a thread that waits with a     *)
(* block has not moved on from its nonce, and what a thread has hashed of  *)
(* an old template it has hashed in its current batch.                     *)
SendsASolution ==
  \A t \in Threads : At(t, "send") => Solves(state[t], nonce[t])

StaleInBatch ==
  \A t \in Threads :
    /\ At(t, "top") => stale[t] <= nonce[t] % Batch
    /\ At(t, "send") => stale[t] <= (nonce[t] % Batch) + 1
    /\ At(t, "count") \/ At(t, "check") \/ At(t, "poll") => nonce[t] % Batch = 0
    /\ stale[t] <= Batch

(* is_synced tells whether there is a template in the slot.  If it were    *)
(* FALSE with a template there, the next unsynced answer of kaspad would   *)
(* be skipped and the threads would mine on.                               *)
SyncedMeansTemplate ==
  managed /\ published > 0 => (isSynced <=> current # 0)

(* The inductive invariant of the proofs.                                  *)
MinerInvariant ==
  /\ TypeOK
  /\ MinesWhatItSaw
  /\ SendsASolution
  /\ BlocksSolveTheirTemplate
  /\ NoFoundBlockIsLost
  /\ StaleInBatch
  /\ SyncedMeansTemplate

(* Counter and reports together miss or invent less than one batch per     *)
(* thread: what a thread has in its current batch, and, because the first  *)
(* nonce is random and the first batch counted in full, what that batch    *)
(* was short of.  The sum over the threads is a number of pairs, as proofs *)
(* can tell how many elements a set has, and not what a fold computes.     *)
Units(f) == UNION {{t} \X (1..f[t]) : t \in Threads}

Sum(f) == Cardinality(Units(f))

InBatch(t) == (nonce[t] % Batch) + (IF At(t, "count") THEN Batch ELSE 0)

HashesAreCounted ==
  (unreported + Sum(start)) % CounterSpace
    = (hashesTried + Sum([t \in Threads |-> InBatch(t)])) % CounterSpace

(* A change of the slot reaches every thread that has not ended, unless    *)
(* the slot goes back to what the thread has.                              *)
ChangesReachThreads ==
  \A t \in Threads :
    (~At(t, "exited") /\ state[t] # current) ~> (At(t, "exited") \/ state[t] = current)

(* After shutdown no thread mines: each one ends, or waits for a template  *)
(* that does not come.                                                     *)
ShutdownStopsMining ==
  shutdown ~> [](\A t \in Threads : At(t, "exited") \/ t \in blocked)
=============================================================================
