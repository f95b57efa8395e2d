------------------------------ MODULE Session ------------------------------
(***************************************************************************)
(* The life of the process: the loop of main (src/main.rs), which connects *)
(* to kaspad, launches a MinerManager with its threads and listens until   *)
(* the connection is over; and the KaspadHandler of src/client.rs.         *)
(*                                                                         *)
(* main is one task; its steps end where it awaits.  phase tells what it   *)
(* is about to do:                                                         *)
(*                                                                         *)
(*   connect             RpcClient::connect                                *)
(*   askInfo, askFirst   the two sends before there is a stream            *)
(*   openStream          message_stream                                    *)
(*   register            send NotifyNewBlockTemplate                       *)
(*   request             client_get_block_template, and on to the launch   *)
(*   sendRequest         ... and its send                                  *)
(*   launch              MinerManager::new                                 *)
(*   listen              stream.message()                                  *)
(*   answer              handle_message sends a request for a template     *)
(*   exited              main has returned                                 *)
(*                                                                         *)
(* Connections are numbered.  Each has its own channel for what is sent,   *)
(* of which kaspad's side (the request stream, run by the gRPC library)    *)
(* holds the receiving end, and its own threads and slot, which are those  *)
(* of module Miner; here only how many threads there are, and how many of  *)
(* them are hashing, is told apart.  kaspad and the network may do         *)
(* anything: refuse, answer anything at any time, end or break the stream. *)
(***************************************************************************)
EXTENDS Integers, Sequences, FiniteSetsExt

CONSTANTS
  MaxConns,           \* bound: connections of the process
  NumThreads,         \* threads each MinerManager launches
  ChannelCap,         \* capacity of the mpsc channel; 3 in the code
  HasDevfund, Window,    \* see Devfund
  DevfundPercent,        \* --devfund-percent
  MaxRequests, MaxTotal  \* bounds: see Devfund

Conns == 1..MaxConns

ASSUME SessionAssumption ==
  /\ MaxConns \in Nat \ {0}
  /\ NumThreads \in Nat
  /\ ChannelCap \in Nat \ {0}
  /\ Window \in Nat \ {0} /\ DevfundPercent \in 0..Window - 1
  /\ HasDevfund \in BOOLEAN
  /\ MaxRequests \in Nat /\ MaxTotal \in Nat \ {0}

VARIABLES
  phase, conn,
  ctr, share, paid,  \* the counting of requests, see Devfund
  stream,    \* what stream.message() would find: nothing yet, messages, the end, an error
  open,      \* the connections whose receiving end exists
  outbox,    \* the channel of connection conn
  isSynced,  \* MinerManager.is_synced of connection conn
  slot,      \* slot[c]: there is a template in the slot of connection c
  threads,   \* threads[c]: threads of connection c that have not returned
  hashing,   \* hashing[c]: how many of them have a template
  shutdown,  \* the flag of the ShutdownHandler
  mineWhenNotSynced,  \* --mine-when-not-synced; stays as it is
  (* history, used by the properties only *)
  answered   \* the last answer of kaspad that says whether there is work

mainVars == <<phase, conn>>
devVars == <<ctr, share, paid>>
netVars == <<stream, open, outbox>>
minerVars == <<isSynced, slot, answered>>
poolVars == <<threads, hashing>>

processVars == <<shutdown, mineWhenNotSynced>>

vars == <<mainVars, devVars, netVars, minerVars, poolVars, processVars>>

Dev == INSTANCE Devfund WITH devfundPercent <- DevfundPercent

Phases == {"connect", "askInfo", "askFirst", "openStream", "register", "request",
           "sendRequest", "launch", "listen", "answer", "exited"}

Messages == {"info", "template", "notify", "block"}

TypeOK ==
  /\ phase \in Phases /\ conn \in 0..MaxConns
  /\ ctr \in 0..MaxRequests /\ share \in 0..MaxRequests
  /\ paid \in [Dev!Addresses -> 0..MaxTotal]
  /\ stream \in {"none", "up", "ended", "failed"}
  /\ open \subseteq Conns
  /\ outbox \in Seq(Messages) /\ Len(outbox) <= ChannelCap
  /\ isSynced \in BOOLEAN /\ slot \in [Conns -> BOOLEAN]
  /\ threads \in [Conns -> 0..NumThreads] /\ hashing \in [Conns -> 0..NumThreads]
  /\ \A c \in Conns : hashing[c] <= threads[c]
  /\ {shutdown, mineWhenNotSynced} \subseteq BOOLEAN
  /\ answered \in {"nothing", "work", "noWork"}

Init ==
  /\ phase = "connect" /\ conn = 0
  /\ Dev!Init
  /\ stream = "none" /\ open = {} /\ outbox = <<>>
  /\ isSynced = TRUE /\ slot = [c \in Conns |-> FALSE]
  /\ threads = [c \in Conns |-> 0] /\ hashing = [c \in Conns |-> 0]
  /\ shutdown = FALSE /\ mineWhenNotSynced \in BOOLEAN
  /\ answered = "nothing"

-----------------------------------------------------------------------------
Goto(p) == phase' = p

(* Sending into the channel waits for room.                                *)
Send(m) ==
  /\ conn \in open
  /\ Len(outbox) < ChannelCap
  /\ outbox' = Append(outbox, m)
  /\ UNCHANGED <<stream, open>>

(* main returns: its locals are dropped, and the ShutdownOnDrop sets the   *)
(* flag.  Threads may run on until the process is gone.                    *)
Exit ==
  /\ Goto("exited")
  /\ shutdown' = TRUE
  /\ UNCHANGED <<conn, devVars, netVars, minerVars, poolVars, mineWhenNotSynced>>

-----------------------------------------------------------------------------
(* main connects.  Every connect has a channel of its own; two messages    *)
(* are sent before there is anybody to take them out.                      *)
Connect ==
  /\ phase = "connect"
  /\ conn < MaxConns
  /\ conn' = conn + 1
  /\ stream' = "none"
  /\ open' = open \cup {conn'}
  /\ outbox' = <<>>
  /\ Goto("askInfo")
  /\ UNCHANGED <<devVars, minerVars, poolVars, processVars>>

AskInfo ==
  /\ phase = "askInfo"
  /\ Send("info")
  /\ Goto("askFirst")
  /\ UNCHANGED <<conn, devVars, minerVars, poolVars, processVars>>

(* Mutant of AskFirst: the first request of a connection, which is for the *)
(* miner, is counted like the others.                                      *)
AskFirstCounted ==
  /\ phase = "askFirst"
  /\ Send("template")
  /\ paid' = [paid EXCEPT !["miner"] = @ + 1]
  /\ ctr' = 1 /\ share' = 0
  /\ Goto("openStream")
  /\ UNCHANGED <<conn, minerVars, poolVars, processVars>>

AskFirst ==
  /\ phase = "askFirst"
  /\ Send("template")
  /\ Dev!Connect
  /\ Goto("openStream")
  /\ UNCHANGED <<conn, minerVars, poolVars, processVars>>

OpenStream ==
  /\ phase = "openStream"
  /\ stream' = "up"
  /\ Goto("register")
  /\ UNCHANGED <<conn, devVars, open, outbox, minerVars, poolVars, processVars>>

(* kaspad refuses the connection, or the stream on it: main returns.       *)
ConnectFails ==
  /\ phase \in {"connect", "openStream"}
  /\ Exit

Register ==
  /\ phase = "register"
  /\ Send("notify")
  /\ Goto("request")
  /\ UNCHANGED <<conn, devVars, minerVars, poolVars, processVars>>

Request ==
  /\ phase = "request"
  /\ Dev!Request
  /\ Goto("sendRequest")
  /\ UNCHANGED <<conn, netVars, minerVars, poolVars, processVars>>

SendRequest ==
  /\ phase = "sendRequest"
  /\ Send("template")
  /\ Goto("launch")
  /\ UNCHANGED <<conn, devVars, minerVars, poolVars, processVars>>

(* MinerManager::new: threads, an empty slot, and the belief that kaspad   *)
(* is synced.                                                              *)
Launch ==
  /\ phase = "launch"
  /\ isSynced' = TRUE
  /\ slot' = [slot EXCEPT ![conn] = FALSE]
  /\ threads' = [threads EXCEPT ![conn] = NumThreads]
  /\ answered' = "nothing"
  /\ Goto("listen")
  /\ UNCHANGED <<conn, devVars, netVars, hashing, processVars>>

(* A send after the receiving end is gone: the error ends main, even where *)
(* the stream is about to end in the way that makes main connect again.    *)
SendFails ==
  /\ phase \in {"register", "sendRequest", "answer"}
  /\ conn \notin open
  /\ Exit

-----------------------------------------------------------------------------
(* listen and handle_message.                                              *)
Listening == phase = "listen" /\ stream = "up"

HandleNotification ==
  /\ Listening
  /\ Dev!Request
  /\ Goto("answer")
  /\ UNCHANGED <<conn, netVars, minerVars, poolVars, processVars>>

Answer ==
  /\ phase = "answer"
  /\ Send("template")
  /\ Goto("listen")
  /\ UNCHANGED <<conn, devVars, minerVars, poolVars, processVars>>

(* A GetBlockTemplateResponse.  A "bad" block has no header.               *)
Templates == [block : {"none", "good", "bad"}, synced : BOOLEAN, error : BOOLEAN]

(* Mutant of Usable: mine_when_not_synced is not asked.                    *)
UsableUnsynced(a) == a.block # "none" /\ ~a.error

Usable(a) ==
  /\ a.block # "none" /\ ~a.error
  /\ a.synced \/ mineWhenNotSynced

(* MinerManager::process_block of a block, and of none.                    *)
ProcessBlock ==
  /\ isSynced' = TRUE
  /\ slot' = [slot EXCEPT ![conn] = TRUE]

ProcessNone ==
  IF isSynced
  THEN isSynced' = FALSE /\ slot' = [slot EXCEPT ![conn] = FALSE]
  ELSE UNCHANGED <<isSynced, slot>>

(* What an answer says about work, by the documentation of the options: a  *)
(* history variable keeps the last that says anything.                     *)
Meaning(a) ==
  IF a.error THEN answered
  ELSE IF ~a.synced /\ ~mineWhenNotSynced THEN "noWork"
  ELSE IF a.block # "none" THEN "work"
  ELSE IF a.synced THEN answered ELSE "noWork"

HandleTemplate(a) ==
  /\ Listening
  /\ answered' = Meaning(a)
  /\ \/ Usable(a) /\ a.block = "good" /\ ProcessBlock
     \/ ~Usable(a) /\ ~a.synced /\ ~a.error /\ ProcessNone
     \/ ~Usable(a) /\ (a.synced \/ a.error) /\ UNCHANGED <<isSynced, slot>>
  /\ UNCHANGED <<mainVars, devVars, netVars, poolVars, processVars>>

(* Errors that end listen and main: a block that cannot be turned into a   *)
(* pow::State, and a GetBlockResponse with an error.                       *)
HandleBadBlock(a) == Listening /\ Usable(a) /\ a.block = "bad" /\ Exit

HandleBlockError == Listening /\ Exit

(* The stream is over: at its end main connects again, on an error it      *)
(* returns.                                                                *)
ListenEnds ==
  /\ phase = "listen" /\ stream = "ended"
  /\ Goto("connect")
  /\ UNCHANGED <<conn, devVars, netVars, minerVars, poolVars, processVars>>

(* Mutant of ListenFails: an error of the stream is passed over.           *)
ListenGoesOn == phase = "listen" /\ stream = "failed" /\ UNCHANGED vars

ListenFails == phase = "listen" /\ stream = "failed" /\ Exit

Main ==
  \/ Connect \/ AskInfo \/ AskFirst \/ OpenStream \/ ConnectFails
  \/ Register \/ Request \/ SendRequest \/ Launch \/ SendFails
  \/ HandleNotification \/ Answer \/ HandleBlockError
  \/ \E a \in Templates : HandleTemplate(a) \/ HandleBadBlock(a)
  \/ ListenEnds \/ ListenFails

-----------------------------------------------------------------------------
(* The gRPC library and the network.  The library polls the channel from   *)
(* the moment it is handed to message_stream.                              *)

(* Mutant of Drained: only a main that listens drains the channel.         *)
DrainedWhileListening == phase = "listen"

(* Mutant of Drained: main, a task of one step at a time, drains it too.   *)
DrainedUnlessAnswering == phase \notin {"askInfo", "askFirst", "answer"}

Drained == phase \notin {"askInfo", "askFirst"}

Deliver ==
  /\ Drained
  /\ conn \in open
  /\ outbox # <<>>
  /\ outbox' = Tail(outbox)
  /\ UNCHANGED <<mainVars, devVars, stream, open, minerVars, poolVars, processVars>>

StreamOver ==
  /\ stream = "up"
  /\ stream' \in {"ended", "failed"}
  /\ UNCHANGED <<mainVars, devVars, open, outbox, minerVars, poolVars, processVars>>

(* The receiving end goes with the request stream, which kaspad may end    *)
(* before main has read all of what kaspad sent, or after.                 *)
DropReceiver(c) ==
  /\ c \in open
  /\ c = conn => stream # "none"
  /\ open' = open \ {c}
  /\ outbox' = IF c = conn THEN <<>> ELSE outbox
  /\ UNCHANGED <<mainVars, devVars, stream, minerVars, poolVars, processVars>>

Network == Deliver \/ StreamOver \/ \E c \in Conns : DropReceiver(c)

-----------------------------------------------------------------------------
(* The threads of connection c; see module Miner for one thread.           *)
StartHashing(c) ==
  /\ slot[c] /\ hashing[c] < threads[c]
  /\ hashing' = [hashing EXCEPT ![c] = @ + 1]
  /\ UNCHANGED <<mainVars, devVars, netVars, minerVars, threads, processVars>>

StopHashing(c) ==
  /\ ~slot[c] /\ hashing[c] > 0
  /\ hashing' = [hashing EXCEPT ![c] = @ - 1]
  /\ UNCHANGED <<mainVars, devVars, netVars, minerVars, threads, processVars>>

(* A block found for an old connection that is still open is sent to       *)
(* nobody, and changes nothing here.                                       *)
FindBlock(c) ==
  /\ hashing[c] > 0
  /\ c = conn /\ Send("block")
  /\ UNCHANGED <<mainVars, devVars, minerVars, poolVars, processVars>>

(* Mutant of EndThread: a thread that finds a block while the channel is   *)
(* full ends.                                                              *)
EndThreadWhenFull(c) ==
  /\ hashing[c] > 0
  /\ shutdown \/ c \notin open \/ Len(outbox) = ChannelCap
  /\ threads' = [threads EXCEPT ![c] = @ - 1]
  /\ hashing' = [hashing EXCEPT ![c] = @ - 1]
  /\ UNCHANGED <<mainVars, devVars, netVars, minerVars, processVars>>

(* Mutant of EndThread: a thread that ends leaves its work running.        *)
EndThreadHashing(c) ==
  /\ hashing[c] > 0
  /\ shutdown \/ c \notin open
  /\ threads' = [threads EXCEPT ![c] = @ - 1]
  /\ UNCHANGED <<mainVars, devVars, netVars, minerVars, hashing, processVars>>

(* A hashing thread ends when it looks at the shutdown flag, or when it    *)
(* finds a block after the receiving end is gone.  Nothing else ends it.   *)
EndThread(c) ==
  /\ hashing[c] > 0
  /\ shutdown \/ c \notin open
  /\ threads' = [threads EXCEPT ![c] = @ - 1]
  /\ hashing' = [hashing EXCEPT ![c] = @ - 1]
  /\ UNCHANGED <<mainVars, devVars, netVars, minerVars, processVars>>

ThreadsOf(c) == StartHashing(c) \/ StopHashing(c) \/ FindBlock(c) \/ EndThread(c)

Next == Main \/ Network \/ \E c \in Conns : ThreadsOf(c)

Spec == Init /\ [][Next]_vars

(* main runs on as far as it is not waiting for kaspad; room in a channel  *)
(* is given to those who wait for it in turn (a fair semaphore); and the   *)
(* library hands on what is sent, as long as kaspad reads.                 *)
Fairness ==
  /\ WF_vars(Request \/ Launch \/ SendFails \/ ListenEnds \/ ListenFails)
  /\ WF_vars(OpenStream \/ ConnectFails)
  /\ SF_vars(AskInfo) /\ SF_vars(AskFirst) /\ SF_vars(Register)
  /\ SF_vars(SendRequest) /\ SF_vars(Answer)
  /\ WF_vars(Deliver)

FairSpec == Spec /\ Fairness

-----------------------------------------------------------------------------
(* While main listens there is work in the slot exactly if the last answer *)
(* that said anything said that there is: answers with errors change       *)
(* nothing, repeated "not synced" is seen once, and the first template     *)
(* after it starts the threads again.                                      *)
SlotFollowsAnswers ==
  phase \in {"listen", "answer"} => (slot[conn] <=> answered = "work")

(* The invariant of the proofs.  Payments are bounded together, of a       *)
(* connection that is yet to come there is nothing, and not of one that is *)
(* being made any threads; and main believes that kaspad is not synced     *)
(* only while the slot is empty, so that it may pass over repeated answers.*)
PaymentsBounded == share <= ctr /\ Dev!Total <= MaxTotal

BeforeLaunch ==
  {"askInfo", "askFirst", "openStream", "register", "request", "sendRequest", "launch"}

ConnsInTurn ==
  /\ phase \in Phases \ {"connect", "exited"} => conn \in Conns
  /\ \A c \in Conns : c > conn => threads[c] = 0
  /\ phase \in BeforeLaunch => threads[conn] = 0

ExitedIsShutdown == shutdown <=> phase = "exited"

UnsyncedIsEmpty == phase \in {"listen", "answer"} /\ ~isSynced => ~slot[conn]

SessionInvariant ==
  /\ TypeOK
  /\ PaymentsBounded
  /\ ConnsInTurn
  /\ ExitedIsShutdown
  /\ UnsyncedIsEmpty
  /\ SlotFollowsAnswers

(* How many connections have been asked for their first template, and how  *)
(* many requests have been counted on all of them.                         *)
Asked == IF phase \in {"askInfo", "askFirst"} THEN conn - 1 ELSE conn

Counted == Dev!Total - Asked

(* Of every window DevfundPercent + 1 requests are for the devfund, and the*)
(* first ones.  As the counter starts anew with each connection, losing    *)
(* connections can only move the devfund ahead of its part of all that has *)
(* been counted in the life of the process, and by no more for each        *)
(* connection than a window that breaks off when that share is paid: it    *)
(* never gets less than its part, and without a devfund nothing is paid.   *)
Share == DevfundPercent + 1

Ahead == Window * paid["devfund"] - Share * Counted

DevfundIsAhead ==
  IF HasDevfund THEN Ahead \in 0..Asked * (Share * (Window - Share))
  ELSE paid["devfund"] = 0

(* The handshake does not get stuck in its own channel, although it sends  *)
(* more messages than fit into it.                                         *)
HandshakeCompletes == phase = "askInfo" ~> phase \in {"listen", "exited"}

(* A notification of kaspad is answered by a request, whatever the threads *)
(* put into the channel meanwhile, unless the connection is lost.          *)
NotificationsAreAnswered == phase = "answer" ~> phase \in {"listen", "exited"}

(* Whatever main does when kaspad's stream ends or breaks - registering,   *)
(* asking, launching threads, answering - it gets to know: it connects     *)
(* again or ends the process, and does not wait on a connection that is    *)
(* over, not even where its own answer to kaspad gets stuck first.         *)
LostStreamIsLeft == stream \in {"ended", "failed"} ~> phase \in {"connect", "exited"}

(* The threads of every connection are a pool as module Miner implements   *)
(* it: no connection has any but those it launched, and none of them ends  *)
(* while its connection and the process go on.  (This is PoolOf(c)!Spec    *)
(* for every c, with the quantifiers where TLC can check them.)            *)
PoolOf(c) == INSTANCE Pool WITH
  Size <- NumThreads,
  slot <- slot[c],
  threads <- threads[c],
  hashing <- hashing[c],
  open <- c \in open

ConnsArePools ==
  /\ \A c \in Conns : PoolOf(c)!Init
  /\ [][\A c \in Conns : [PoolOf(c)!Next]_(PoolOf(c)!vars)]_vars

(* --threads is documented as the "amount of miner threads to launch": no  *)
(* more than that ever hash at the same time.                              *)
NoMoreThanNumThreads ==
  MapThenSumSet(LAMBDA c : hashing[c], Conns) <= NumThreads
=============================================================================
