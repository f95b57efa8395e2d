---------------------------- MODULE SessionProofs ----------------------------
(***************************************************************************)
(* Proofs about Session, for any number of connections and of threads on   *)
(* each, any capacity of the channel and any share of the devfund.         *)
(*                                                                         *)
(* Most actions move phase and little else.  Each lemma below is about one *)
(* part of SessionInvariant, and names the actions that can disturb it.    *)
(***************************************************************************)
EXTENDS Session, NumberFacts

USE DEF Goto

LEMMA ConstantFacts ==
  /\ MaxConns \in Nat \ {0} /\ NumThreads \in Nat /\ ChannelCap \in Nat \ {0}
  /\ Window \in Nat \ {0} /\ DevfundPercent \in 0..Window - 1 /\ HasDevfund \in BOOLEAN
  /\ MaxRequests \in Nat /\ MaxTotal \in Nat \ {0}
BY SessionAssumption

(* What the steps of main are to the counting of requests.                 *)
LEMMA DevfundSteps ==
  [Next]_vars => \/ AskFirst /\ Dev!Connect
                 \/ (Request \/ HandleNotification) /\ Dev!Request
                 \/ UNCHANGED devVars
BY DEF Next, vars, Main, Network, ThreadsOf, Connect, AskInfo, AskFirst, OpenStream,
       ConnectFails, Register, Request, SendRequest, Launch, SendFails,
       HandleNotification, Answer, HandleTemplate, HandleBadBlock, HandleBlockError,
       ListenEnds, ListenFails, Exit, Deliver, StreamOver, DropReceiver,
       StartHashing, StopHashing, FindBlock, EndThread

(* What the steps are to the pools of threads.                             *)
LEMMA PoolSteps ==
  [Next]_vars => \/ Launch
                 \/ \E c \in Conns : StartHashing(c) \/ StopHashing(c) \/ EndThread(c)
                 \/ UNCHANGED poolVars
BY DEF Next, vars, Main, Network, ThreadsOf, Connect, AskInfo, AskFirst, OpenStream,
       ConnectFails, Register, Request, SendRequest, SendFails,
       HandleNotification, Answer, HandleTemplate, HandleBadBlock, HandleBlockError,
       ListenEnds, ListenFails, Exit, Deliver, StreamOver, DropReceiver, FindBlock

(* What the steps are to the manager and its slot.                         *)
LEMMA MinerSteps ==
  [Next]_vars => \/ Launch
                 \/ \E a \in Templates : HandleTemplate(a)
                 \/ UNCHANGED minerVars
BY DEF Next, vars, Main, Network, ThreadsOf, Connect, AskInfo, AskFirst, OpenStream,
       ConnectFails, Register, Request, SendRequest, SendFails,
       HandleNotification, Answer, HandleBadBlock, HandleBlockError,
       ListenEnds, ListenFails, Exit, Deliver, StreamOver, DropReceiver,
       StartHashing, StopHashing, FindBlock, EndThread

-----------------------------------------------------------------------------
(* Payments: the counter bounds the share, and the total each part of it.  *)
DevTypeOK ==
  /\ ctr \in 0..MaxRequests /\ share \in 0..MaxRequests
  /\ paid \in [Dev!Addresses -> 0..MaxTotal]

LEMMA StepPayments ==
  DevTypeOK /\ PaymentsBounded /\ [Next]_vars => DevTypeOK' /\ PaymentsBounded'
<1> SUFFICES ASSUME DevTypeOK, PaymentsBounded, [Next]_vars
             PROVE  DevTypeOK' /\ PaymentsBounded'
  OBVIOUS
<1> USE ConstantFacts DEF DevTypeOK, PaymentsBounded, Dev!Addresses, Dev!Total
<1>1. CASE Dev!Connect
  BY <1>1 DEF Dev!Connect, Dev!Pay
<1>2. CASE Dev!Request
  <2>1. Dev!PayAddress(ctr) \in {"miner", "devfund"}
    BY DEF Dev!PayAddress
  <2> QED
    BY <1>2, <2>1 DEF Dev!Request, Dev!Pay
<1>3. CASE UNCHANGED devVars
  BY <1>3 DEF devVars
<1> QED
  BY <1>1, <1>2, <1>3, DevfundSteps

-----------------------------------------------------------------------------
(* The phases of main, and the connections it has made.                    *)
MainTypeOK ==
  /\ phase \in Phases /\ conn \in 0..MaxConns
  /\ {shutdown, mineWhenNotSynced} \subseteq BOOLEAN

LEMMA StepMain ==
  MainTypeOK /\ ExitedIsShutdown /\ [Next]_vars => MainTypeOK' /\ ExitedIsShutdown'
<1> SUFFICES ASSUME MainTypeOK, ExitedIsShutdown, [Next]_vars
             PROVE  MainTypeOK' /\ ExitedIsShutdown'
  OBVIOUS
<1> USE DEF MainTypeOK, ExitedIsShutdown, Phases
<1>1. CASE Main
  <2>1. mineWhenNotSynced' = mineWhenNotSynced
    BY <1>1 DEF Main, Connect, AskInfo, AskFirst, OpenStream, ConnectFails, Register,
       Request, SendRequest, Launch, SendFails, HandleNotification, Answer, HandleTemplate,
       HandleBadBlock, HandleBlockError, ListenEnds, ListenFails, Exit, processVars
  <2>2. CASE Exit
    BY <2>1, <2>2 DEF Exit
  <2>3. CASE ~Exit
    <3>1. phase # "exited" /\ shutdown' = shutdown /\ phase' \in Phases \ {"exited"}
      BY <1>1, <2>3 DEF Main, Connect, AskInfo, AskFirst, OpenStream, ConnectFails,
         Register, Request, SendRequest, Launch, SendFails, HandleNotification, Answer,
         HandleTemplate, HandleBadBlock, HandleBlockError, Listening, ListenEnds,
         ListenFails, mainVars, processVars
    <3>2. conn' \in 0..MaxConns
      BY <1>1, <2>3, ConstantFacts DEF Main, Connect, AskInfo, AskFirst, OpenStream,
         ConnectFails, Register, Request, SendRequest, Launch, SendFails,
         HandleNotification, Answer, HandleTemplate, HandleBadBlock, HandleBlockError,
         ListenEnds, ListenFails, mainVars
    <3> QED
      BY <2>1, <3>1, <3>2
  <2> QED
    BY <2>2, <2>3
<1>2. CASE UNCHANGED <<mainVars, processVars>>
  BY <1>2 DEF mainVars, processVars
<1> QED
  BY <1>1, <1>2 DEF Next, vars, Network, ThreadsOf, Deliver, StreamOver, DropReceiver,
                    StartHashing, StopHashing, FindBlock, EndThread

(* The channel.                                                            *)
NetTypeOK ==
  /\ stream \in {"none", "up", "ended", "failed"}
  /\ open \subseteq Conns
  /\ outbox \in Seq(Messages) /\ Len(outbox) <= ChannelCap

LEMMA NetSteps ==
  [Next]_vars => \/ \E m \in Messages : Send(m)
                 \/ Connect \/ OpenStream \/ StreamOver \/ Deliver
                 \/ \E c \in Conns : DropReceiver(c)
                 \/ UNCHANGED netVars
<1> SUFFICES ASSUME [Next]_vars
             PROVE  \/ Send("info") \/ Send("template") \/ Send("notify") \/ Send("block")
                    \/ Connect \/ OpenStream \/ StreamOver \/ Deliver
                    \/ \E c \in Conns : DropReceiver(c)
                    \/ UNCHANGED netVars
  BY DEF Messages
<1> QED
  BY DEF Next, vars, Main, Network, ThreadsOf, AskInfo, AskFirst, ConnectFails, Register,
      Request, SendRequest, Launch, SendFails, HandleNotification, Answer, HandleTemplate,
      HandleBadBlock, HandleBlockError, ListenEnds, ListenFails, Exit, StartHashing,
      StopHashing, FindBlock, EndThread

LEMMA SendTypeOK ==
  ASSUME NetTypeOK, NEW m \in Messages, Send(m)
  PROVE  NetTypeOK'
BY ConstantFacts DEF NetTypeOK, Send

LEMMA StepNet ==
  MainTypeOK /\ NetTypeOK /\ [Next]_vars => NetTypeOK'
<1> SUFFICES ASSUME MainTypeOK, NetTypeOK, [Next]_vars PROVE NetTypeOK'
  OBVIOUS
<1>1. CASE UNCHANGED netVars
  BY <1>1 DEF netVars, NetTypeOK
<1>2. CASE \E m \in Messages : Send(m)
  <2>1. PICK m \in Messages : Send(m)
    BY <1>2
  <2> QED
    BY <2>1, SendTypeOK
<1>3. CASE Connect
  BY <1>3, ConstantFacts DEF Connect, NetTypeOK, MainTypeOK, Conns
<1>4. CASE OpenStream \/ StreamOver
  BY <1>4 DEF OpenStream, StreamOver, NetTypeOK
<1>5. CASE Deliver
  <2>1. outbox \in Seq(Messages) /\ outbox # <<>> /\ Len(outbox) <= ChannelCap
    BY <1>5 DEF Deliver, NetTypeOK
  <2>2. Tail(outbox) \in Seq(Messages) /\ Len(Tail(outbox)) <= ChannelCap
    BY <2>1, ConstantFacts
  <2> QED
    BY <1>5, <2>2 DEF Deliver, NetTypeOK
<1>6. CASE \E c \in Conns : DropReceiver(c)
  BY <1>6, ConstantFacts DEF DropReceiver, NetTypeOK
<1> QED
  BY <1>1, <1>2, <1>3, <1>4, <1>5, <1>6, NetSteps

(* Threads.                                                                *)
PoolTypeOK ==
  /\ threads \in [Conns -> 0..NumThreads] /\ hashing \in [Conns -> 0..NumThreads]
  /\ \A c \in Conns : hashing[c] <= threads[c]

LEMMA StepPool ==
  MainTypeOK /\ ConnsInTurn /\ PoolTypeOK /\ [Next]_vars => PoolTypeOK' /\ ConnsInTurn'
<1> SUFFICES ASSUME MainTypeOK, ConnsInTurn, PoolTypeOK, [Next]_vars
             PROVE  PoolTypeOK' /\ ConnsInTurn'
  OBVIOUS
<1> USE ConstantFacts DEF MainTypeOK, PoolTypeOK, Conns
<1>1. PoolTypeOK'
  <2>1. CASE Launch
    <3>1. threads' = [threads EXCEPT ![conn] = NumThreads] /\ hashing' = hashing
      BY <2>1 DEF Launch
    <3>2. NumThreads \in 0..NumThreads
      OBVIOUS
    <3>3. threads' \in [Conns -> 0..NumThreads]
      BY <3>1, <3>2
    <3>4. \A c \in Conns : hashing[c] <= threads'[c]
      BY <3>1
    <3> QED
      BY <3>1, <3>3, <3>4
  <2>2. ASSUME NEW c \in Conns, StartHashing(c) \/ StopHashing(c) \/ EndThread(c)
        PROVE  PoolTypeOK'
    <3>1. hashing[c] \in 0..NumThreads /\ threads[c] \in 0..NumThreads /\ hashing[c] <= threads[c]
      OBVIOUS
    <3>2. CASE StartHashing(c)
      <4>1. hashing[c] + 1 \in 0..NumThreads
        BY <3>1, <3>2 DEF StartHashing
      <4>2. /\ threads' = threads /\ hashing' = [hashing EXCEPT ![c] = @ + 1]
            /\ hashing[c] + 1 <= threads[c]
        BY <3>1, <3>2 DEF StartHashing
      <4> QED
        BY <4>1, <4>2
    <3>3. CASE StopHashing(c)
      BY <3>1, <3>3 DEF StopHashing
    <3>4. CASE EndThread(c)
      <4>1. hashing[c] - 1 \in 0..NumThreads /\ threads[c] - 1 \in 0..NumThreads
        BY <3>1, <3>4 DEF EndThread
      <4>2. /\ threads' = [threads EXCEPT ![c] = @ - 1]
            /\ hashing' = [hashing EXCEPT ![c] = @ - 1]
            /\ hashing[c] - 1 <= threads[c] - 1
        BY <3>1, <3>4 DEF EndThread
      <4> QED
        BY <4>1, <4>2
    <3> QED
      BY <2>2, <3>2, <3>3, <3>4
  <2>3. CASE UNCHANGED poolVars
    BY <2>3 DEF poolVars
  <2> QED
    BY <2>1, <2>2, <2>3, PoolSteps
<1>2. ConnsInTurn'
  <2> USE DEF ConnsInTurn, Phases, BeforeLaunch
  <2>1. CASE Connect
    BY <2>1 DEF Connect, poolVars
  <2>2. CASE Launch
    BY <2>2 DEF Launch
  <2>3. ASSUME NEW c \in Conns, StartHashing(c) \/ StopHashing(c) \/ EndThread(c)
        PROVE  ConnsInTurn'
    <3>1. hashing[c] \in 0..NumThreads /\ hashing[c] <= threads[c]
      OBVIOUS
    <3>2. UNCHANGED mainVars
      BY <2>3 DEF StartHashing, StopHashing, EndThread
    <3>3. \/ threads' = threads
          \/ hashing[c] > 0 /\ threads' = [threads EXCEPT ![c] = @ - 1]
      BY <2>3 DEF StartHashing, StopHashing, EndThread
    <3>4. \A d \in Conns : threads[d] = 0 => threads'[d] = 0
      BY <3>1, <3>3
    <3> QED
      BY <3>2, <3>4 DEF mainVars
  <2>4. CASE UNCHANGED <<mainVars, poolVars>>
    BY <2>4 DEF mainVars, poolVars
  <2>5. CASE Main /\ ~Connect /\ ~Launch
    <3>1. /\ UNCHANGED <<conn, threads>>
          /\ phase' \in BeforeLaunch => phase \in BeforeLaunch
          /\ phase' \in Phases \ {"connect", "exited"}
               => phase \in Phases \ {"connect", "exited"}
      BY <2>5
      DEF Main, AskInfo, AskFirst, OpenStream, ConnectFails, Register, Request,
          SendRequest, SendFails, HandleNotification, Answer, HandleTemplate,
          HandleBadBlock, HandleBlockError, Listening, ListenEnds, ListenFails, Exit,
          mainVars, poolVars
    <3> QED
      BY <3>1
  <2> QED
    BY <2>1, <2>2, <2>3, <2>4, <2>5
    DEF Next, vars, Network, ThreadsOf, Deliver, StreamOver, DropReceiver, FindBlock
<1> QED
  BY <1>1, <1>2

-----------------------------------------------------------------------------
(* The slot, main's belief about it, and what kaspad said last.            *)
SlotTypeOK ==
  /\ isSynced \in BOOLEAN /\ slot \in [Conns -> BOOLEAN]
  /\ answered \in {"nothing", "work", "noWork"}

SlotInvariant == SlotTypeOK /\ UnsyncedIsEmpty /\ SlotFollowsAnswers

(* An answer that is used is one that says there is work.                  *)
LEMMA UsableMeansWork ==
  ASSUME NEW a \in Templates
  PROVE  /\ Usable(a) => Meaning(a) = "work"
         /\ ~Usable(a) /\ ~a.synced /\ ~a.error => Meaning(a) = "noWork"
         /\ ~Usable(a) /\ (a.synced \/ a.error) => Meaning(a) = answered
BY DEF Templates, Usable, Meaning

LEMMA AnswerKeepsSlot ==
  ASSUME MainTypeOK, ConnsInTurn, SlotInvariant, NEW a \in Templates, HandleTemplate(a)
  PROVE  SlotInvariant'
<1> USE DEF SlotInvariant, SlotTypeOK, UnsyncedIsEmpty, SlotFollowsAnswers
<1>1. phase = "listen" /\ phase' = phase /\ conn' = conn /\ answered' = Meaning(a)
  BY DEF HandleTemplate, Listening, mainVars
<1>2. conn \in Conns /\ slot[conn] \in BOOLEAN
  BY <1>1 DEF ConnsInTurn, Phases
<1>3. CASE Usable(a) /\ ProcessBlock
  <2>1. answered' = "work"
    BY <1>1, <1>3, UsableMeansWork
  <2>2. isSynced' = TRUE /\ slot' = [slot EXCEPT ![conn] = TRUE]
    BY <1>3 DEF ProcessBlock
  <2> QED
    BY <1>1, <1>2, <2>1, <2>2
<1>4. CASE ~Usable(a) /\ ~a.synced /\ ~a.error /\ ProcessNone
  <2>1. answered' = "noWork"
    BY <1>1, <1>4, UsableMeansWork
  <2>2. CASE isSynced
    <3>1. isSynced' = FALSE /\ slot' = [slot EXCEPT ![conn] = FALSE]
      BY <1>4, <2>2 DEF ProcessNone
    <3> QED
      BY <1>1, <1>2, <2>1, <3>1
  <2>3. CASE ~isSynced
    <3>1. isSynced' = isSynced /\ slot' = slot /\ ~slot[conn]
      BY <1>1, <1>4, <2>3 DEF ProcessNone
    <3> QED
      BY <1>1, <1>2, <2>1, <2>3, <3>1
  <2> QED
    BY <2>2, <2>3
<1>5. CASE ~Usable(a) /\ (a.synced \/ a.error) /\ UNCHANGED <<isSynced, slot>>
  <2>1. answered' = answered
    BY <1>1, <1>5, UsableMeansWork
  <2> QED
    BY <1>1, <1>5, <2>1
<1> QED
  BY <1>3, <1>4, <1>5 DEF HandleTemplate

LEMMA StepSlot ==
  MainTypeOK /\ ConnsInTurn /\ SlotInvariant /\ [Next]_vars => SlotInvariant'
<1> SUFFICES ASSUME MainTypeOK, ConnsInTurn, SlotInvariant, [Next]_vars
             PROVE  SlotInvariant'
  OBVIOUS
<1>1. CASE \E a \in Templates : HandleTemplate(a)
  <2>1. PICK a \in Templates : HandleTemplate(a)
    BY <1>1
  <2> QED
    BY <2>1, AnswerKeepsSlot
<1>2. CASE Launch
  <2>1. conn \in Conns /\ conn' = conn
    BY <1>2 DEF Launch, ConnsInTurn, Phases
  <2> QED
    BY <1>2, <2>1 DEF Launch, SlotInvariant, SlotTypeOK, UnsyncedIsEmpty, SlotFollowsAnswers
<1>3. CASE UNCHANGED minerVars /\ ~Launch
  <2>1. phase' \in {"listen", "answer"} => phase \in {"listen", "answer"} /\ conn' = conn
    BY <1>3 DEF Next, vars, Main, Network, ThreadsOf, Connect, AskInfo, AskFirst,
       OpenStream, ConnectFails, Register, Request, SendRequest, SendFails,
       HandleNotification, Answer, HandleTemplate, HandleBadBlock, HandleBlockError,
       Listening, ListenEnds, ListenFails, Exit, Deliver, StreamOver, DropReceiver,
       StartHashing, StopHashing, FindBlock, EndThread, mainVars
  <2> QED
    BY <1>3, <2>1
    DEF minerVars, SlotInvariant, SlotTypeOK, UnsyncedIsEmpty, SlotFollowsAnswers
<1> QED
  BY <1>1, <1>2, <1>3, MinerSteps

-----------------------------------------------------------------------------
(* Together.                                                               *)
LEMMA Parts ==
  SessionInvariant <=> /\ MainTypeOK /\ DevTypeOK /\ NetTypeOK /\ PoolTypeOK
                       /\ PaymentsBounded /\ ConnsInTurn /\ ExitedIsShutdown
                       /\ SlotInvariant
BY DEF SessionInvariant, TypeOK, MainTypeOK, DevTypeOK, NetTypeOK, PoolTypeOK,
       SlotInvariant, SlotTypeOK

LEMMA InitSession == Init => SessionInvariant
<1> SUFFICES ASSUME Init PROVE SessionInvariant
  OBVIOUS
<1> USE ConstantFacts DEF Init
<1>1. MainTypeOK /\ ExitedIsShutdown
  <2>1. phase \in Phases /\ conn \in 0..MaxConns
    BY DEF Phases
  <2>2. {shutdown, mineWhenNotSynced} \subseteq BOOLEAN
    BY Zenon
  <2>3. ExitedIsShutdown
    BY DEF ExitedIsShutdown
  <2> QED
    BY <2>1, <2>2, <2>3 DEF MainTypeOK
<1>2. DevTypeOK /\ PaymentsBounded
  BY DEF DevTypeOK, PaymentsBounded, Dev!Init, Dev!Addresses, Dev!Total
<1>3. NetTypeOK
  BY DEF NetTypeOK
<1>4. PoolTypeOK /\ ConnsInTurn
  BY DEF PoolTypeOK, ConnsInTurn, BeforeLaunch, Conns
<1>5. SlotInvariant
  BY DEF SlotInvariant, SlotTypeOK, UnsyncedIsEmpty, SlotFollowsAnswers
<1> QED
  BY <1>1, <1>2, <1>3, <1>4, <1>5, Parts

LEMMA StepSession == SessionInvariant /\ [Next]_vars => SessionInvariant'
<1> SUFFICES ASSUME SessionInvariant, [Next]_vars PROVE SessionInvariant'
  OBVIOUS
<1>1. /\ MainTypeOK' /\ ExitedIsShutdown' /\ DevTypeOK' /\ PaymentsBounded'
      /\ NetTypeOK' /\ PoolTypeOK' /\ ConnsInTurn' /\ SlotInvariant'
  BY Parts, StepMain, StepPayments, StepNet, StepPool, StepSlot
<1> QED
  BY <1>1 DEF SessionInvariant, TypeOK, MainTypeOK, DevTypeOK, NetTypeOK, PoolTypeOK,
              SlotInvariant, SlotTypeOK

(* Every reachable state of the process satisfies the invariant that the   *)
(* following theorems rest on.                                             *)
THEOREM SessionInvariantHolds == Spec => []SessionInvariant
<1>1. Init => SessionInvariant
  BY InitSession
<1>2. SessionInvariant /\ [Next]_vars => SessionInvariant'
  BY StepSession
<1> QED
  BY <1>1, <1>2, PTL DEF Spec

(* While main listens there is work in its slot exactly if the last answer *)
(* of kaspad that said anything said so, whatever came in between, on any  *)
(* number of connections.                                                  *)
THEOREM SlotIsWhatKaspadSaid == Spec => []SlotFollowsAnswers
<1>1. SessionInvariant => SlotFollowsAnswers
  BY DEF SessionInvariant
<1> QED
  BY <1>1, SessionInvariantHolds, PTL

-----------------------------------------------------------------------------
(* The devfund and its part of all that is counted.  Within a window, the  *)
(* first Share requests move it ahead, the others back to where it was.    *)
Excess(r) == IF r < Share THEN (Window - Share) * r ELSE Share * (Window - r)

(* The most that a window that breaks off can leave.                       *)
Slack == Share * (Window - Share)

LEMMA ShareIsOfWindow == Share \in 1..Window /\ Window \in Nat \ {0} /\ Slack \in Nat
<1>1. Share \in 1..Window /\ Window \in Nat \ {0}
  BY ConstantFacts DEF Share
<1>2. Share \in Nat /\ Window - Share \in Nat
  BY <1>1
<1> QED
  BY <1>1, <1>2 DEF Slack

(* Products of numbers grow with them.                                     *)
LEMMA ProductGrows ==
  ASSUME NEW a \in Nat, NEW b \in Nat, NEW c \in Nat, b <= c
  PROVE  a * b \in 0..a * c
<1>1. a * c = a * b + a * (c - b)
  OBVIOUS
<1>2. a * b \in Nat /\ a * (c - b) \in Nat
  OBVIOUS
<1> QED
  BY <1>1, <1>2

LEMMA ExcessIsBounded ==
  ASSUME NEW r \in 0..Window - 1
  PROVE  Excess(r) \in 0..Slack
<1>1. Share \in Nat /\ Window \in Nat /\ Window - Share \in Nat /\ Window - r \in Nat /\ r \in Nat
  BY ShareIsOfWindow
<1>2. CASE r < Share
  <2>1. (Window - Share) * r \in 0..(Window - Share) * Share
    BY <1>1, <1>2, ProductGrows
  <2>2. (Window - Share) * Share = Slack
    BY <1>1 DEF Slack
  <2> QED
    BY <1>2, <2>1, <2>2 DEF Excess
<1>3. CASE ~(r < Share)
  <2>1. Window - r <= Window - Share
    BY <1>1, <1>3
  <2>2. Share * (Window - r) \in 0..Share * (Window - Share)
    BY <1>1, <2>1, ProductGrows
  <2> QED
    BY <1>3, <2>2 DEF Excess, Slack
<1> QED
  BY <1>2, <1>3

LEMMA ExcessStep ==
  ASSUME NEW r \in 0..Window - 1
  PROVE  Excess(IF r = Window - 1 THEN 0 ELSE r + 1) =
         Excess(r) + (IF r < Share THEN Window ELSE 0) - Share
<1> DEFINE rest == Window - Share
<1>1. Share \in 1..Window /\ Window \in Nat \ {0} /\ rest \in Nat /\ r \in Nat
  BY ShareIsOfWindow
<1>2. Excess(0) = 0
  BY <1>1 DEF Excess
<1>3. /\ rest * (r + 1) = rest * r + rest
      /\ Share * (Window - (r + 1)) = Share * (Window - r) - Share
  BY <1>1
<1>4. CASE r < Share
  <2>1. Excess(r) = rest * r
    BY <1>4 DEF Excess
  <2>2. CASE r = Window - 1
    <3>1. rest = 0
      BY <1>1, <1>4, <2>2
    <3> QED
      BY <1>1, <1>2, <1>4, <2>1, <2>2, <3>1
  <2>3. CASE r # Window - 1 /\ r + 1 < Share
    <3>1. Excess(r + 1) = rest * (r + 1)
      BY <2>3 DEF Excess
    <3>2. rest * r \in Int
      BY <1>1
    <3> QED
      BY <1>1, <1>3, <1>4, <2>1, <2>3, <3>1, <3>2
  <2>4. CASE r # Window - 1 /\ ~(r + 1 < Share)
    <3>1. r + 1 = Share
      BY <1>1, <1>4, <2>4
    <3>2. Excess(r + 1) = Share * rest
      BY <2>4, <3>1 DEF Excess
    <3>3. Share * rest = rest * (r + 1)
      BY <1>1, <3>1
    <3>4. rest * r \in Int
      BY <1>1
    <3> QED
      BY <1>1, <1>3, <1>4, <2>1, <2>4, <3>2, <3>3, <3>4
  <2> QED
    BY <2>2, <2>3, <2>4
<1>5. CASE ~(r < Share)
  <2>1. Excess(r) = Share * (Window - r)
    BY <1>5 DEF Excess
  <2>2. CASE r = Window - 1
    <3>1. Share * (Window - r) = Share
      BY <1>1, <2>2
    <3> QED
      BY <1>1, <1>2, <1>5, <2>1, <2>2, <3>1
  <2>3. CASE r # Window - 1
    <3>1. Excess(r + 1) = Share * (Window - (r + 1))
      BY <1>1, <1>5 DEF Excess
    <3>2. Share * (Window - r) \in Int
      BY <1>1
    <3> QED
      BY <1>1, <1>3, <1>5, <2>1, <2>3, <3>1, <3>2
  <2> QED
    BY <2>2, <2>3
<1> QED
  BY <1>4, <1>5

(* A request is counted on a connection that has been asked; and asking is *)
(* what Devfund calls connecting.                                          *)
LEMMA CountingSteps ==
  MainTypeOK /\ ConnsInTurn /\ [Next]_vars =>
    /\ Asked \in Nat
    /\ \/ Dev!Connect /\ Asked' = Asked + 1
       \/ Dev!Request /\ Asked' = Asked /\ Asked # 0
       \/ UNCHANGED devVars /\ Asked' = Asked
<1> SUFFICES ASSUME MainTypeOK, ConnsInTurn, [Next]_vars
             PROVE  /\ Asked \in Nat
                    /\ \/ Dev!Connect /\ Asked' = Asked + 1
                       \/ Dev!Request /\ Asked' = Asked /\ Asked # 0
                       \/ UNCHANGED devVars /\ Asked' = Asked
  OBVIOUS
<1>1. /\ conn \in Nat /\ phase \in Phases
      /\ phase \in Phases \ {"connect", "exited"} => conn \in Nat \ {0}
  BY ConstantFacts DEF MainTypeOK, ConnsInTurn, Conns
<1>2. Asked \in Nat
  BY <1>1 DEF Asked, Phases
<1>3. CASE AskFirst
  BY <1>1, <1>3 DEF AskFirst, Asked, Phases
<1>4. CASE Request \/ HandleNotification
  BY <1>1, <1>2, <1>4 DEF Request, HandleNotification, Listening, Asked, Phases
<1>5. CASE Connect
  BY <1>1, <1>2, <1>5 DEF Connect, Asked, devVars
<1>6. CASE AskInfo
  BY <1>2, <1>6 DEF AskInfo, Asked, devVars
<1>7. CASE ~(AskFirst \/ Request \/ HandleNotification \/ Connect \/ AskInfo)
  <2>1. UNCHANGED devVars
    BY <1>7, DevfundSteps
  <2>2. \/ UNCHANGED mainVars
        \/ conn' = conn /\ {phase, phase'} \cap {"askInfo", "askFirst"} = {}
    BY <1>7 DEF Next, vars, Main, Network, ThreadsOf, OpenStream, ConnectFails, Register,
       SendRequest, Launch, SendFails, Answer, HandleTemplate, HandleBadBlock,
       HandleBlockError, Listening, ListenEnds, ListenFails, Exit, Deliver, StreamOver,
       DropReceiver, StartHashing, StopHashing, FindBlock, EndThread
  <2> QED
    BY <1>2, <2>1, <2>2 DEF mainVars, Asked
<1> QED
  BY <1>2, <1>3, <1>4, <1>5, <1>6, <1>7

(* What lost connections have moved the devfund ahead is what it is ahead  *)
(* by, less what the current window has moved it.                          *)
Lost == Ahead - Excess(ctr % Window)

AheadInvariant ==
  IF HasDevfund
  THEN IF Asked = 0 THEN ctr = 0 /\ Lost = 0 ELSE Lost \in 0..(Asked - 1) * Slack
  ELSE paid["devfund"] = 0

LEMMA AheadStart == Init => AheadInvariant
<1> SUFFICES ASSUME Init PROVE AheadInvariant
  OBVIOUS
<1>1. Asked = 0 /\ ctr = 0 /\ paid["devfund"] = 0 /\ paid["miner"] = 0
  BY DEF Init, Asked, Dev!Init, Dev!Addresses
<1>2. Ahead = 0
  BY <1>1, ShareIsOfWindow DEF Ahead, Counted, Dev!Total
<1>3. Excess(ctr % Window) = 0
  BY <1>1, ShareIsOfWindow, SmallMod DEF Excess
<1> QED
  BY <1>1, <1>2, <1>3 DEF AheadInvariant, Lost

LEMMA StepAhead ==
  MainTypeOK /\ ConnsInTurn /\ DevTypeOK /\ AheadInvariant /\ [Next]_vars => AheadInvariant'
<1> SUFFICES ASSUME MainTypeOK, ConnsInTurn, DevTypeOK, AheadInvariant, [Next]_vars
             PROVE  AheadInvariant'
  OBVIOUS
<1> DEFINE r == ctr % Window
           D == paid["devfund"]
           M == paid["miner"]
<1>1. /\ ctr \in Nat /\ D \in Nat /\ M \in Nat /\ Asked \in Nat
      /\ Share \in 1..Window /\ Window \in Nat \ {0} /\ Slack \in Nat
  BY ConstantFacts, ShareIsOfWindow, CountingSteps DEF DevTypeOK, Dev!Addresses
<1>2. r \in 0..Window - 1 /\ Excess(r) \in 0..Slack
  BY <1>1, ModRange, ExcessIsBounded
<1>3. Ahead = Window * D - Share * ((M + D) - Asked) /\ Ahead \in Int
  BY <1>1 DEF Ahead, Counted, Dev!Total
<1>4. CASE Dev!Connect /\ Asked' = Asked + 1
  <2>1. ctr' = 0 /\ D' = D /\ M' = M + 1
    BY <1>4 DEF Dev!Connect, Dev!Pay, DevTypeOK, Dev!Addresses
  <2>2. Ahead' = Ahead
    <3>1. Ahead' = Window * D - Share * ((M + 1 + D) - (Asked + 1))
      BY <1>4, <2>1 DEF Ahead, Counted, Dev!Total
    <3>2. (M + 1 + D) - (Asked + 1) = (M + D) - Asked
      BY <1>1
    <3> QED
      BY <1>3, <3>1, <3>2
  <2>3. 0 % Window = 0 /\ Excess(0) = 0
    BY <1>1, SmallMod DEF Excess
  <2>4. Lost' = Lost + Excess(r)
    <3>1. Lost' = Ahead' - Excess(ctr' % Window)
      BY DEF Lost, Excess, Share
    <3>2. Lost = Ahead - Excess(r)
      BY DEF Lost
    <3> QED
      BY <1>2, <1>3, <2>1, <2>2, <2>3, <3>1, <3>2
  <2>5. CASE HasDevfund /\ Asked = 0
    <3>1. ctr = 0 /\ Lost = 0
      BY <2>5 DEF AheadInvariant
    <3>2. Lost' = 0
      BY <2>3, <2>4, <3>1
    <3>3. Asked' # 0 /\ (Asked' - 1) * Slack = 0
      BY <1>1, <1>4, <2>5
    <3> QED
      BY <2>5, <3>2, <3>3 DEF AheadInvariant, Slack, Share
  <2>6. CASE HasDevfund /\ Asked # 0
    <3>1. Lost \in 0..(Asked - 1) * Slack
      BY <2>6 DEF AheadInvariant
    <3>2. (Asked - 1) * Slack + Slack = Asked * Slack /\ (Asked - 1) * Slack \in Int
      BY <1>1
    <3>3. Lost' \in 0..Asked * Slack
      BY <1>1, <1>2, <2>4, <3>1, <3>2
    <3>4. Asked' # 0 /\ Asked' - 1 = Asked
      BY <1>1, <1>4
    <3> QED
      BY <2>6, <3>3, <3>4 DEF AheadInvariant, Slack, Share
  <2>7. CASE ~HasDevfund
    BY <2>1, <2>7 DEF AheadInvariant
  <2> QED
    BY <2>5, <2>6, <2>7
<1>5. CASE Dev!Request /\ Asked' = Asked /\ Asked # 0
  <2>1. /\ ctr' = ctr + 1
        /\ Dev!PayAddress(ctr) = IF HasDevfund /\ r < Share THEN "devfund" ELSE "miner"
    BY <1>1, <1>2, <1>5, ConstantFacts DEF Dev!Request, Dev!PayAddress, Dev!InShare, Share
  <2>2. paid' = [paid EXCEPT ![Dev!PayAddress(ctr)] = @ + 1]
    BY <1>5 DEF Dev!Request, Dev!Pay
  <2>3. CASE ~HasDevfund
    <3>1. D' = D
      BY <2>1, <2>2, <2>3 DEF DevTypeOK, Dev!Addresses
    <3> QED
      BY <2>3, <3>1 DEF AheadInvariant
  <2>4. CASE HasDevfund
    <3>1. /\ D' = IF r < Share THEN D + 1 ELSE D
          /\ M' = IF r < Share THEN M ELSE M + 1
      BY <2>1, <2>2, <2>4 DEF DevTypeOK, Dev!Addresses
    <3>2. Ahead' = Window * D' - Share * ((M' + D') - Asked)
      BY <1>5 DEF Ahead, Counted, Dev!Total, Share
    <3>3. (M' + D') - Asked = ((M + D) - Asked) + 1
      BY <1>1, <3>1
    <3>4. Share * (((M + D) - Asked) + 1) = Share * ((M + D) - Asked) + Share
      BY <1>1
    <3>5. Window * D' = Window * D + (IF r < Share THEN Window ELSE 0)
      BY <1>1, <3>1
    <3>6. Ahead' = Ahead + (IF r < Share THEN Window ELSE 0) - Share
      <4> DEFINE x == Share * ((M + D) - Asked)
                 y == Window * D
                 w == IF r < Share THEN Window ELSE 0
      <4>1. x \in Int /\ y \in Int /\ w \in Int
        BY <1>1
      <4>2. Ahead' = (y + w) - (x + Share) /\ Ahead = y - x
        BY <1>3, <3>2, <3>3, <3>4, <3>5
      <4> HIDE DEF x, y, w
      <4>3. Ahead' = Ahead + w - Share
        BY <1>1, <4>1, <4>2
      <4> QED
        BY <4>3 DEF w
    <3>7. ctr' % Window = IF r = Window - 1 THEN 0 ELSE r + 1
      BY <1>1, <2>1, ModStep
    <3>8. Excess(ctr' % Window) = Excess(r) + (IF r < Share THEN Window ELSE 0) - Share
      BY <1>2, <3>7, ExcessStep
    <3>9. Lost' = Ahead' - Excess(ctr' % Window) /\ Lost = Ahead - Excess(r)
      BY DEF Lost, Excess, Share
    <3>10. Lost' = Lost
      <4> DEFINE w == IF r < Share THEN Window ELSE 0
                 e == Excess(r)
                 f == Excess(ctr' % Window)
      <4>1. w \in Int /\ e \in Int
        BY <1>1, <1>2
      <4>2. Lost = Ahead - e /\ Lost' = Ahead' - f /\ Ahead' = Ahead + w - Share
            /\ f = e + w - Share
        BY <3>6, <3>8, <3>9
      <4> HIDE DEF w, e, f
      <4> QED
        BY <1>1, <1>3, <4>1, <4>2
    <3> QED
      BY <1>5, <2>4, <3>10 DEF AheadInvariant, Slack, Share
  <2> QED
    BY <2>3, <2>4
<1>6. CASE UNCHANGED devVars /\ Asked' = Asked
  <2>1. paid' = paid /\ ctr' = ctr
    BY <1>6 DEF devVars
  <2>2. Lost' = Lost
    BY <1>6, <2>1 DEF Lost, Ahead, Counted, Dev!Total, Excess, Share
  <2> QED
    BY <1>6, <2>1, <2>2 DEF AheadInvariant, Slack, Share
<1> QED
  BY <1>4, <1>5, <1>6, CountingSteps

LEMMA AheadIsBounded ==
  MainTypeOK /\ ConnsInTurn /\ DevTypeOK /\ AheadInvariant => DevfundIsAhead
<1> SUFFICES ASSUME MainTypeOK, ConnsInTurn, DevTypeOK, AheadInvariant PROVE DevfundIsAhead
  OBVIOUS
<1>1. CASE ~HasDevfund
  BY <1>1 DEF AheadInvariant, DevfundIsAhead
<1>2. CASE HasDevfund
  <2>1. /\ Asked \in Nat /\ Slack \in Nat /\ Ahead \in Int
        /\ Excess(ctr % Window) \in 0..Slack
    <3>1. Asked \in Nat
      BY ConstantFacts DEF Asked, MainTypeOK, ConnsInTurn, Conns, Phases
    <3>2. ctr \in Nat /\ paid["devfund"] \in Nat /\ paid["miner"] \in Nat
      BY ConstantFacts DEF DevTypeOK, Dev!Addresses
    <3>3. Excess(ctr % Window) \in 0..Slack
      BY <3>2, ShareIsOfWindow, ModRange, ExcessIsBounded
    <3>4. Ahead \in Int
      BY <3>1, <3>2, ShareIsOfWindow DEF Ahead, Counted, Dev!Total
    <3> QED
      BY <3>1, <3>3, <3>4, ShareIsOfWindow
  <2>2. Ahead = Lost + Excess(ctr % Window)
    BY <2>1 DEF Lost
  <2>3. CASE Asked = 0
    <3>1. Lost = 0 /\ ctr = 0
      BY <1>2, <2>3 DEF AheadInvariant
    <3>2. Excess(ctr % Window) = 0
      BY <3>1, ShareIsOfWindow, SmallMod DEF Excess
    <3>3. Ahead = 0 /\ Asked * Slack = 0
      BY <2>1, <2>2, <2>3, <3>1, <3>2
    <3> QED
      BY <1>2, <3>3 DEF DevfundIsAhead, Slack
  <2>4. CASE Asked # 0
    <3>1. Lost \in 0..(Asked - 1) * Slack
      BY <1>2, <2>4 DEF AheadInvariant
    <3>2. (Asked - 1) * Slack + Slack = Asked * Slack /\ (Asked - 1) * Slack \in Int
      BY <2>1
    <3>3. Ahead \in 0..Asked * Slack
      BY <2>1, <2>2, <3>1, <3>2
    <3> QED
      BY <1>2, <3>3 DEF DevfundIsAhead, Slack
  <2> QED
    BY <2>3, <2>4
<1> QED
  BY <1>1, <1>2

(* However often connections are lost, the devfund never gets less than    *)
(* its part of the requests that are counted in the life of the process,   *)
(* and each connection moves it ahead by less than a window's share.       *)
THEOREM DevfundNeverLosesByReconnecting == Spec => []DevfundIsAhead
<1>1. SessionInvariant => MainTypeOK /\ ConnsInTurn /\ DevTypeOK
  BY Parts
<1> QED
  BY <1>1, AheadStart, StepAhead, AheadIsBounded, SessionInvariantHolds, PTL DEF Spec

-----------------------------------------------------------------------------
(* The threads of each connection are a pool.  Steps of main, of the       *)
(* network and of the threads of other connections are steps of the pool's *)
(* surroundings, or none.                                                  *)
PoolStep(c) == [PoolOf(c)!Next]_(PoolOf(c)!vars)

LEMMA InitPools == Init => \A c \in Conns : PoolOf(c)!Init
BY DEF Init, PoolOf!Init

LEMMA PoolUnchanged ==
  ASSUME NEW c \in Conns,
         slot'[c] = slot[c], threads'[c] = threads[c], hashing'[c] = hashing[c],
         shutdown' = shutdown, c \in open' <=> c \in open
  PROVE  PoolStep(c)
BY DEF PoolStep, PoolOf!vars

LEMMA MainIsAPoolStep ==
  ASSUME SessionInvariant, Main, NEW c \in Conns
  PROVE  PoolStep(c)
<1> USE DEF PoolStep, PoolOf!Next
<1>1. CASE Exit
  BY <1>1 DEF Exit, PoolOf!ShutDown, minerVars, poolVars, netVars
<1>2. CASE Connect
  <2>1. CASE c = conn'
    <3>1. threads[c] = 0
      BY <1>2, <2>1 DEF Connect, SessionInvariant, TypeOK, ConnsInTurn
    <3> QED
      BY <1>2, <2>1, <3>1 DEF Connect, PoolOf!Connect, minerVars, poolVars, processVars
  <2>2. CASE c # conn'
    BY <1>2, <2>2, PoolUnchanged DEF Connect, minerVars, poolVars, processVars
  <2> QED
    BY <2>1, <2>2
<1>3. CASE Launch
  <2>1. slot \in [Conns -> BOOLEAN] /\ threads \in [Conns -> 0..NumThreads]
    BY DEF SessionInvariant, TypeOK
  <2>2. CASE c = conn
    <3>1. threads[c] = 0 /\ ~shutdown
      BY <1>3, <2>2 DEF Launch, SessionInvariant, ConnsInTurn, BeforeLaunch, ExitedIsShutdown
    <3> QED
      BY <1>3, <2>1, <2>2, <3>1 DEF Launch, PoolOf!Launch, netVars, processVars
  <2>3. CASE c # conn
    BY <1>3, <2>1, <2>3, PoolUnchanged DEF Launch, netVars, processVars
  <2> QED
    BY <2>2, <2>3
<1>4. ASSUME NEW a \in Templates, HandleTemplate(a)
      PROVE  PoolStep(c)
  <2>1. slot \in [Conns -> BOOLEAN]
    BY DEF SessionInvariant, TypeOK
  <2>2. UNCHANGED <<netVars, poolVars, processVars>>
    BY <1>4 DEF HandleTemplate
  <2>3. \/ slot' = slot
        \/ slot' = [slot EXCEPT ![conn] = TRUE]
        \/ slot' = [slot EXCEPT ![conn] = FALSE]
    BY <1>4 DEF HandleTemplate, ProcessBlock, ProcessNone
  <2>4. slot'[c] = slot[c] \/ slot'[c] = TRUE \/ slot'[c] = FALSE
    BY <2>1, <2>3
  <2> QED
    BY <2>2, <2>4
    DEF PoolOf!FillSlot, PoolOf!EmptySlot, PoolOf!vars, netVars, poolVars, processVars
<1>5. CASE /\ UNCHANGED <<open, slot, threads, hashing, shutdown>>
  BY <1>5, PoolUnchanged
<1> QED
  BY <1>1, <1>2, <1>3, <1>4, <1>5
  DEF Main, AskInfo, AskFirst, OpenStream, ConnectFails, Register, Request, SendRequest,
      SendFails, HandleNotification, Answer, HandleBadBlock, HandleBlockError, ListenEnds,
      ListenFails, Send, netVars, minerVars, poolVars, processVars

LEMMA NetworkIsAPoolStep ==
  ASSUME Network, NEW c \in Conns
  PROVE  PoolStep(c)
<1>1. CASE Deliver \/ StreamOver
  BY <1>1, PoolUnchanged DEF Deliver, StreamOver, minerVars, poolVars, processVars
<1>2. ASSUME NEW d \in Conns, DropReceiver(d)
      PROVE  PoolStep(c)
  <2>1. CASE d = c
    BY <1>2, <2>1
    DEF DropReceiver, PoolStep, PoolOf!Next, PoolOf!Disconnect, minerVars, poolVars,
        processVars
  <2>2. CASE d # c
    BY <1>2, <2>2, PoolUnchanged DEF DropReceiver, minerVars, poolVars, processVars
  <2> QED
    BY <2>1, <2>2
<1> QED
  BY <1>1, <1>2 DEF Network

LEMMA ThreadIsAPoolStep ==
  ASSUME SessionInvariant, NEW d \in Conns, ThreadsOf(d), NEW c \in Conns
  PROVE  PoolStep(c)
<1>1. threads \in [Conns -> 0..NumThreads] /\ hashing \in [Conns -> 0..NumThreads]
  BY DEF SessionInvariant, TypeOK
<1>2. CASE FindBlock(d)
  BY <1>2, PoolUnchanged DEF FindBlock, Send, minerVars, poolVars, processVars
<1>3. CASE d # c
  BY <1>1, <1>3, PoolUnchanged
  DEF ThreadsOf, StartHashing, StopHashing, FindBlock, EndThread, Send, netVars, minerVars,
      poolVars, processVars
<1>4. CASE d = c /\ (StartHashing(d) \/ StopHashing(d) \/ EndThread(d))
  <2> USE <1>1, <1>4 DEF PoolStep, PoolOf!Next, netVars, minerVars, processVars
  <2>1. CASE StartHashing(d)
    BY <2>1 DEF StartHashing, PoolOf!StartHashing
  <2>2. CASE StopHashing(d)
    BY <2>2 DEF StopHashing, PoolOf!StopHashing
  <2>3. CASE EndThread(d)
    BY <2>3 DEF EndThread, PoolOf!EndThread
  <2> QED
    BY <2>1, <2>2, <2>3
<1> QED
  BY <1>2, <1>3, <1>4 DEF ThreadsOf

LEMMA StepPools ==
  SessionInvariant /\ [Next]_vars
    => [\A c \in Conns : [PoolOf(c)!Next]_(PoolOf(c)!vars)]_vars
<1> SUFFICES ASSUME SessionInvariant, Next, NEW c \in Conns PROVE PoolStep(c)
  BY DEF PoolStep
<1> QED
  BY MainIsAPoolStep, NetworkIsAPoolStep, ThreadIsAPoolStep DEF Next

(* However many connections come and go, no connection has threads but     *)
(* those it launched, and none of them ends before the connection and the  *)
(* process do.                                                             *)
THEOREM ConnectionsArePools == Spec => ConnsArePools
<1>1. Init => \A c \in Conns : PoolOf(c)!Init
  BY InitPools
<1>2. SessionInvariant /\ [Next]_vars
        => [\A c \in Conns : [PoolOf(c)!Next]_(PoolOf(c)!vars)]_vars
  BY StepPools
<1> QED
  BY <1>1, <1>2, SessionInvariantHolds, PTL DEF Spec, ConnsArePools
=============================================================================
