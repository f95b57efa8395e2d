--------------------------- MODULE StartupProofs ---------------------------
(* What is made of the command line, for every base and length of numerals,*)
(* every number of requests, every limit of a suffix and every port: first *)
(* the payments for any percentage and any window, the one of 10000        *)
(* requests included; then the percentage, then address and suffix.        *)
EXTENDS Startup, NumberFacts, Sequences

CountersOK ==
  /\ devfundPercent \in 0..Window - 1
  /\ ctr \in Nat /\ share \in Nat

(* One more request is due to the devfund exactly if it is in the share.   *)
LEMMA DueStep ==
  ASSUME NEW n \in Nat, devfundPercent \in 0..Window - 1
  PROVE  Due(n + 1) = IF PayAddress(n) = "devfund" THEN Due(n) + 1 ELSE Due(n)
<1> USE DevfundAssumption
<1>1. CASE HasDevfund
  <2> DEFINE q == n \div Window
             r == n % Window
             d == devfundPercent + 1
  <2>1. q \in Nat /\ r \in 0..Window-1 /\ d \in 1..Window
    <3>1. Window \in Nat \ {0}
      OBVIOUS
    <3>2. q \in Nat
      BY <3>1, DivMod
    <3>3. r \in 0..Window-1
      BY <3>1, ModRange
    <3> QED
      BY <3>2, <3>3
  <2>2. /\ Due(n) = d * q + Lesser(r, d)
        /\ PayAddress(n) = IF r < d THEN "devfund" ELSE "miner"
    BY <1>1, <2>1 DEF Due, PayAddress, InShare
  <2>3. CASE r = Window - 1
    <3>1. Due(n + 1) = d * (q + 1) + Lesser(0, d)
      BY <1>1, <2>3, ModStep DEF Due
    <3>2. d * (q + 1) = d * q + d
      BY <2>1
    <3> HIDE DEF q, r, d
    <3>3. Lesser(0, d) = 0 /\ Lesser(r, d) = IF r < d THEN d - 1 ELSE d
      BY <2>1, <2>3 DEF Lesser
    <3>4. d * q \in Int
      BY <2>1
    <3> QED
      BY <2>1, <2>2, <3>1, <3>2, <3>3, <3>4
  <2>4. CASE r # Window - 1
    <3>1. Due(n + 1) = d * q + Lesser(r + 1, d)
      BY <1>1, <2>4, ModStep DEF Due
    <3> HIDE DEF q, r, d
    <3>2. Lesser(r + 1, d) = IF r < d THEN Lesser(r, d) + 1 ELSE Lesser(r, d)
      BY <2>1 DEF Lesser
    <3>3. d * q \in Int /\ Lesser(r, d) \in Int
      BY <2>1 DEF Lesser
    <3> QED
      BY <2>2, <3>1, <3>2, <3>3
  <2> QED
    BY <2>3, <2>4
<1>2. CASE ~HasDevfund
  BY <1>2 DEF Due, PayAddress
<1> QED
  BY <1>1, <1>2

LEMMA NoWindowYet == 0 \div Window = 0 /\ 0 % Window = 0
<1> USE DevfundAssumption
<1>1. 0 = Window * (0 \div Window) + (0 % Window)
  BY DivMod
<1> QED
  BY <1>1, ModRange, DivMod, DivModUnique

(* Nothing is due before the first counted request.                        *)
LEMMA DueAtStart ==
  ASSUME devfundPercent \in 0..Window - 1
  PROVE  Due(0) = 0
<1> QED
  BY NoWindowYet, DevfundAssumption DEF Due, Lesser

(* What has been paid stays what is due.                                   *)
LEMMA DueIsPaid ==
  CountersOK /\ ShareIsDue /\ [Next]_vars => CountersOK' /\ ShareIsDue'
<1> SUFFICES ASSUME CountersOK, ShareIsDue, [Next]_vars
             PROVE  CountersOK' /\ ShareIsDue'
  OBVIOUS
<1>1. CASE Connect
  BY <1>1, DueAtStart DEF Connect, CountersOK, ShareIsDue, Due, Lesser
<1>2. CASE Request
  <2>1. /\ devfundPercent' = devfundPercent /\ ctr' = ctr + 1
        /\ ctr \in Nat /\ share \in Nat
        /\ share' = IF PayAddress(ctr) = "devfund" THEN share + 1 ELSE share
        /\ share = Due(ctr)
    BY <1>2 DEF Request, CountersOK, ShareIsDue
  <2>2. share' = Due(ctr + 1)
    BY <2>1, DueStep DEF CountersOK
  <2>3. Due(ctr)' = Due(ctr + 1)
    BY <2>1 DEF Due, Lesser
  <2> QED
    BY <2>1, <2>2, <2>3 DEF CountersOK, ShareIsDue
<1>3. CASE UNCHANGED vars
  BY <1>3 DEF vars, CountersOK, ShareIsDue, Due, Lesser
<1> QED
  BY <1>1, <1>2, <1>3 DEF Next

(* On every connection, after any number of requests, the devfund has been *)
(* given the first devfund_percent + 1 requests of each window of 10000.   *)
THEOREM DevfundGetsItsDue == Spec => []ShareIsDue
<1>1. Init => CountersOK /\ ShareIsDue
  BY DueAtStart DEF Init, CountersOK, ShareIsDue
<1> QED
  BY <1>1, DueIsPaid, PTL DEF Spec

-----------------------------------------------------------------------------
(* Two digits in front of the dot and two behind it make less than a whole.*)
LEMMA TwoDigitsEach ==
  ASSUME NEW h \in Nat \ {0}, NEW p \in 0..h - 1, NEW q \in 0..h - 1
  PROVE  p * h + q \in 0..h * h - 1
<1>1. p * h \in Nat /\ h * h \in Nat
  OBVIOUS
<1>2. p * h <= (h - 1) * h
  OBVIOUS
<1>3. (h - 1) * h = h * h - h
  OBVIOUS
<1> DEFINE ph == p * h
           hh == h * h
           mh == (h - 1) * h
<1> HIDE DEF ph, hh, mh
<1>4. ph \in Nat /\ hh \in Nat /\ ph <= mh /\ mh = hh - h
  BY <1>1, <1>2, <1>3 DEF ph, hh, mh
<1>5. ph + q \in 0..hh - 1
  BY <1>4
<1> QED
  BY <1>5 DEF ph, hh

(* What the parser made of the argument; nothing is requested before.      *)
ArgumentIsParsed ==
  \/ outcome = "unread" /\ ctr = 0 /\ share = 0
  \/ outcome = "error" /\ ~Option!Accepted
  \/ /\ outcome = "parsed" /\ Option!Accepted
     /\ devfundPercent = argument.prefix.value * Hundred + Option!Postfix.value

(* What is given for the option is an argument, and the percentage is less *)
(* than a whole.                                                           *)
PaymentsInvariant ==
  /\ argument \in Option!Arguments
  /\ CountersOK /\ ShareIsDue
  /\ ArgumentIsParsed

(* An accepted argument has two parts of less than a hundred.              *)
LEMMA AcceptedPercentFits ==
  ASSUME argument \in Option!Arguments, Option!Accepted
  PROVE  argument.prefix.value * Hundred + Option!Postfix.value \in 0..Window - 1
<1>1. Hundred \in Nat \ {0} /\ Window = Hundred * Hundred
  <2>1. Base * Base \in Nat \ {0}
    BY OptionAssumption
  <2> QED
    BY <2>1, PaymentsAssumption DEF Hundred
<1>2. argument.prefix.value \in 0..Hundred - 1
  <2>1. argument.prefix \in Option!Parts
    BY DEF Option!Arguments
  <2>2. \/ argument.prefix.value = Option!NotANumber
        \/ argument.prefix.value \in 0..Base^MaxLength - 1
    BY <2>1 DEF Option!Parts
  <2> QED
    BY <1>1, <2>2 DEF Option!Accepted, Option!TooLarge, Option!Hundred, Hundred
<1>3. Option!Postfix.value \in 0..Hundred - 1
  <2>1. CASE argument.postfix = Option!NoPart
    BY <1>1, <2>1 DEF Option!Postfix
  <2>2. CASE argument.postfix # Option!NoPart
    <3>1. argument.postfix \in Option!Parts
      BY <2>2 DEF Option!Arguments
    <3>2. \/ argument.postfix.value = Option!NotANumber
          \/ argument.postfix.value \in 0..Base^MaxLength - 1
      BY <3>1 DEF Option!Parts
    <3> QED
      BY <1>1, <2>2, <3>2
      DEF Option!Accepted, Option!TooLarge, Option!Postfix, Option!Hundred, Hundred
  <2> QED
    BY <2>1, <2>2
<1> QED
  BY <1>1, <1>2, <1>3, TwoDigitsEach

LEMMA PaymentsInvariantStart == PaymentsInit => PaymentsInvariant
<1> SUFFICES ASSUME PaymentsInit PROVE PaymentsInvariant
  OBVIOUS
<1>1. argument \in Option!Arguments /\ CountersOK /\ outcome = "unread"
  BY DEF PaymentsInit, Option!Init, Init, CountersOK
<1>2. ctr = 0 /\ share = 0
  BY DEF PaymentsInit, Init
<1>3. ShareIsDue
  BY <1>1, <1>2, DueAtStart DEF CountersOK, ShareIsDue
<1>4. ArgumentIsParsed
  BY <1>1, <1>2 DEF ArgumentIsParsed
<1> QED
  BY <1>1, <1>3, <1>4 DEF PaymentsInvariant

LEMMA SameArgument ==
  argument' = argument =>
    /\ Option!Accepted' = Option!Accepted /\ Option!Postfix' = Option!Postfix
    /\ argument'.prefix.value = argument.prefix.value
BY DEF Option!Accepted, Option!Postfix, Option!TooLong, Option!TooLarge

LEMMA PaymentsInvariantStep ==
  PaymentsInvariant /\ [PaymentsNext]_paymentVars => PaymentsInvariant'
<1> SUFFICES ASSUME PaymentsInvariant, [PaymentsNext]_paymentVars
             PROVE  PaymentsInvariant'
  OBVIOUS
<1> USE DEF PaymentsInvariant
<1>1. CASE ParseOption
  <2>1. /\ argument' = argument /\ ctr' = 0 /\ share' = 0
    BY <1>1 DEF ParseOption, Option!Parse, ArgumentIsParsed
  <2>2. devfundPercent' \in 0..Window - 1
    <3>1. CASE Option!Accepted
      BY <1>1, <3>1, AcceptedPercentFits
      DEF ParseOption, Option!Parse, Option!Hundred, Hundred
    <3>2. CASE ~Option!Accepted
      BY <1>1, <3>2 DEF ParseOption, Option!Parse, CountersOK
    <3> QED
      BY <3>1, <3>2
  <2>3. Due(0)' = 0
    BY <2>2, NoWindowYet, DevfundAssumption DEF Due, Lesser
  <2>4. ArgumentIsParsed'
    BY <1>1, <2>1, SameArgument
    DEF ArgumentIsParsed, ParseOption, Option!Parse, Option!Hundred, Hundred
  <2> QED
    BY <2>1, <2>2, <2>3, <2>4 DEF CountersOK, ShareIsDue
<1>2. CASE RequestTemplate
  <2>1. CountersOK' /\ ShareIsDue'
    BY <1>2, DueIsPaid DEF RequestTemplate, Next
  <2>2. argument' = argument /\ outcome' = outcome /\ devfundPercent' = devfundPercent
    BY <1>2 DEF RequestTemplate, Connect, Request
  <2>3. ArgumentIsParsed'
    BY <1>2, <2>2, SameArgument DEF RequestTemplate, ArgumentIsParsed
  <2> QED
    BY <2>1, <2>2, <2>3
<1>3. CASE UNCHANGED paymentVars
  <2>1. CountersOK' /\ ShareIsDue'
    BY <1>3, DueIsPaid DEF paymentVars
  <2>2. ArgumentIsParsed'
    BY <1>3, SameArgument DEF paymentVars, vars, ArgumentIsParsed
  <2> QED
    BY <1>3, <2>1, <2>2 DEF paymentVars
<1> QED
  BY <1>1, <1>2, <1>3 DEF PaymentsNext

(* To the payments, all that main does is parsing and requesting.          *)
LEMMA StartupPays == StartupSpec => PaymentsSpec
<1>1. StartupInit => PaymentsInit
  BY DEF StartupInit
<1>2. [StartupNext]_startupVars => [PaymentsNext]_paymentVars
  BY DEF StartupNext, startupVars, ParseArgument, Process, ConnectAndRequest,
         ConnectFails, RequestOnConnection, Launch, PaymentsNext, RequestTemplate
<1> QED
  BY <1>1, <1>2, PTL DEF StartupSpec, PaymentsSpec

LEMMA PaymentsInvariantHolds == StartupSpec => []PaymentsInvariant
<1>1. PaymentsSpec => []PaymentsInvariant
  BY PaymentsInvariantStart, PaymentsInvariantStep, PTL DEF PaymentsSpec
<1> QED
  BY <1>1, StartupPays, PTL

(* No argument that the parser accepts leads to a percentage that the      *)
(* windows of the client could not serve.                                  *)
THEOREM PercentFitsWindow == StartupSpec => []PercentIsBelowWhole
<1>1. PaymentsInvariant => PercentIsBelowWhole
  BY PaymentsAssumption
  DEF PaymentsInvariant, CountersOK, PercentIsBelowWhole,
      Option!PercentIsBelowWhole, Option!Hundred, Hundred
<1> QED
  BY <1>1, PaymentsInvariantHolds, PTL

(* Whatever is given for --devfund-percent, every connection has given the *)
(* devfund just the first devfund_percent + 1 requests of each window.     *)
THEOREM PaymentsFollowTheOption == StartupSpec => []ShareIsDue
<1>1. PaymentsInvariant => ShareIsDue
  BY DEF PaymentsInvariant
<1> QED
  BY <1>1, PaymentsInvariantHolds, PTL

(* An argument of the form that the parser asks for has two parts of less  *)
(* than a hundred, so that none of the parser's guards refuses it.         *)
LEMMA CanonicalIsAccepted ==
  ASSUME argument \in Option!Arguments, Option!Canonical
  PROVE  /\ Option!Accepted
         /\ Option!Hundredths(Option!Postfix) = Option!Postfix.value
<1>1. /\ Base \in Nat \ {0} /\ Hundred \in Nat /\ Hundred = Base * Base /\ 1 <= Hundred
      /\ Base <= Hundred /\ Option!Hundred = Hundred
  <2>1. Base * Base \in Nat /\ Base <= Base * Base
    BY OptionAssumption
  <2> QED
    BY <2>1, OptionAssumption DEF Hundred, Option!Hundred
<1>2. ASSUME NEW part \in Option!Parts, part.length \in {1, 2}, part.value # Option!NotANumber
      PROVE  part.value \in 0..Hundred - 1 /\ ~Option!TooLong(part) /\ ~Option!TooLarge(part)
  BY <1>1, <1>2
  DEF Option!Parts, Option!Numbers, Option!TooLong, Option!TooLarge
<1>3. argument.prefix \in Option!Parts /\ argument.prefix.length \in {1, 2}
      /\ argument.prefix.value # Option!NotANumber /\ ~argument.moreDots
  BY DEF Option!Arguments, Option!Canonical
<1>4. CASE argument.postfix = Option!NoPart
  <2>1. Option!Postfix = [length |-> 1, value |-> 0]
    BY <1>4 DEF Option!Postfix
  <2>2. ~Option!TooLong(Option!Postfix) /\ ~Option!TooLarge(Option!Postfix)
        /\ Option!Postfix.value # Option!NotANumber
    BY <1>1, <2>1 DEF Option!TooLong, Option!TooLarge, Option!NotANumber
  <2>3. Option!Hundredths(Option!Postfix) = Option!Postfix.value
    BY <1>1, <2>1 DEF Option!Hundredths
  <2> QED
    BY <1>2, <1>3, <2>2, <2>3 DEF Option!Accepted
<1>5. CASE argument.postfix # Option!NoPart
  <2>1. Option!Postfix = argument.postfix /\ argument.postfix \in Option!Parts
        /\ argument.postfix.value # Option!NotANumber
    BY <1>5 DEF Option!Postfix, Option!Arguments, Option!Canonical
  <2>2. Option!Postfix = [length |-> 1, value |-> 0] \/ argument.postfix.length = 2
    BY DEF Option!Canonical
  <2>3. Option!Postfix.length \in {1, 2} /\ Option!Postfix.value # Option!NotANumber
    BY <2>1, <2>2
  <2>4. Option!Hundredths(Option!Postfix) = Option!Postfix.value
    BY <1>1, <2>1, <2>2 DEF Option!Hundredths
  <2> QED
    BY <1>2, <1>3, <2>1, <2>3, <2>4 DEF Option!Accepted
<1> QED
  BY <1>4, <1>5

(* Every percentage written as XX or XX.YY is accepted, and taken for the  *)
(* number that it is.                                                      *)
THEOREM CanonicalIsRead == StartupSpec => []CanonicalIsExact
<1>1. PaymentsInvariant => CanonicalIsExact
  BY CanonicalIsAccepted
  DEF PaymentsInvariant, ArgumentIsParsed, CanonicalIsExact, Option!CanonicalIsExact,
      Option!Hundred, Hundred
<1> QED
  BY <1>1, PaymentsInvariantHolds, PTL

-----------------------------------------------------------------------------
(* Address and suffix.  Of an empty address main makes the default.        *)
Given ==
  IF options.address = CommandLine!EmptyText
  THEN [options.address EXCEPT !.host = CommandLine!DefaultHost]
  ELSE options.address

AddressAccepted == Given.grpc \/ CommandLine!IsIp(Given)

SuffixIsGood ==
  options.suffix = CommandLine!NoSuffix \/ CommandLine!SuffixAccepted(options.suffix)

(* Beyond Opt::process the address is the one given, completed, and the    *)
(* options are good; a connection is one to that address.                  *)
CommandInvariant ==
  /\ options \in CommandLine!Options
  /\ stage \in {"start", "refused", "accepted", "connected", "mining", "unreachable"}
  /\ stage = "start" => address = options.address
  /\ stage \in {"accepted", "connected", "mining"} =>
       AddressAccepted /\ SuffixIsGood /\ address = CommandLine!Completed(Given)
  /\ stage \in {"connected", "mining"} =>
       /\ CommandLine!IsUri(address)
       /\ endpoint = [host |-> address.host, port |-> address.port]
       /\ extraData = CommandLine!ExtraData

LEMMA CommandInvariantStart == StartupInit => CommandInvariant
BY DEF StartupInit, CommandLine!Init, CommandInvariant

LEMMA CommandInvariantStep ==
  CommandInvariant /\ [StartupNext]_startupVars => CommandInvariant'
<1> SUFFICES ASSUME CommandInvariant, [StartupNext]_startupVars PROVE CommandInvariant'
  OBVIOUS
<1> USE DEF CommandInvariant
<1>1. ASSUME UNCHANGED commandVars PROVE CommandInvariant'
  BY <1>1
  DEF commandVars, Given, AddressAccepted, SuffixIsGood, CommandLine!IsIp, CommandLine!Completed,
      CommandLine!Port, CommandLine!IsUri, CommandLine!ExtraData, CommandLine!SuffixAccepted
<1>2. CASE ParseArgument
  BY <1>1, <1>2 DEF ParseArgument
<1>3. CASE Process
  <2>1. stage = "start" /\ CommandLine!Address = Given
    BY <1>3 DEF Process, CommandLine!Process, CommandLine!Address, Given
  <2>2. options' = options
    BY <1>3 DEF Process, CommandLine!Process
  <2>3. Given' = Given /\ AddressAccepted' = AddressAccepted /\ SuffixIsGood' = SuffixIsGood
    BY <2>2 DEF Given, AddressAccepted, SuffixIsGood, CommandLine!IsIp, CommandLine!SuffixAccepted
  <2>4. CommandLine!Completed(Given)' = CommandLine!Completed(Given)
    BY <2>2 DEF Given, CommandLine!Completed, CommandLine!Port
  <2>5. CASE stage' = "refused"
    BY <2>2, <2>5
  <2>6. CASE stage' = "accepted"
    BY <1>3, <2>1, <2>2, <2>3, <2>4, <2>6
    DEF Process, CommandLine!Process, AddressAccepted, SuffixIsGood
  <2> QED
    BY <1>3, <2>5, <2>6 DEF Process, CommandLine!Process
<1>4. CASE ConnectAndRequest
  BY <1>4
  DEF ConnectAndRequest, CommandLine!Connect, Given, AddressAccepted, SuffixIsGood,
      CommandLine!IsIp, CommandLine!Completed, CommandLine!Port, CommandLine!IsUri,
      CommandLine!ExtraData, CommandLine!SuffixAccepted
<1>5. CASE ConnectFails
  BY <1>5 DEF ConnectFails, CommandLine!ConnectFails
<1>6. CASE RequestOnConnection
  BY <1>1, <1>6 DEF RequestOnConnection
<1>7. CASE Launch
  BY <1>7
  DEF Launch, CommandLine!Launch, Given, AddressAccepted, SuffixIsGood,
      CommandLine!IsIp, CommandLine!Completed, CommandLine!Port, CommandLine!IsUri,
      CommandLine!ExtraData, CommandLine!SuffixAccepted
<1>8. CASE UNCHANGED startupVars
  BY <1>1, <1>8 DEF startupVars
<1> QED
  BY <1>2, <1>3, <1>4, <1>5, <1>6, <1>7, <1>8 DEF StartupNext

(* The host is the one named, or the default.                              *)
LEMMA GivenHostIsTold ==
  ASSUME options.address \in CommandLine!Texts
  PROVE  /\ Given \in CommandLine!Texts
         /\ Given.grpc = options.address.grpc
         /\ Given.host = CommandLine!ToldHost
         /\ Given.port = options.address.port
<1>1. CASE options.address = CommandLine!EmptyText
  BY <1>1 DEF Given, CommandLine!ToldHost, CommandLine!EmptyText, CommandLine!Texts,
              CommandLine!Hosts, CommandLine!Ipv4
<1>2. CASE options.address # CommandLine!EmptyText
  BY <1>2 DEF Given, CommandLine!ToldHost
<1> QED
  BY <1>1, <1>2

(* An address that is completed is an IP at the network's port.            *)
LEMMA ConnectedWhereTold == CommandInvariant => ConnectsWhereTold
<1> SUFFICES ASSUME CommandInvariant, stage \in {"connected", "mining"}
             PROVE  ConnectsWhereTold
  BY DEF ConnectsWhereTold, CommandLine!ConnectsWhereTold
<1>1. /\ address = CommandLine!Completed(Given) /\ AddressAccepted
      /\ CommandLine!IsUri(address)
      /\ endpoint = [host |-> address.host, port |-> address.port]
  BY DEF CommandInvariant
<1>2. /\ options.address \in CommandLine!Texts /\ options.testnet \in BOOLEAN
      /\ options.port \in {CommandLine!NotGiven, OtherPort}
  BY DEF CommandInvariant, CommandLine!Options
<1>3. /\ Given \in CommandLine!Texts /\ Given.grpc = options.address.grpc
      /\ Given.host = CommandLine!ToldHost /\ Given.port = options.address.port
  BY <1>2, GivenHostIsTold
<1>4. CASE options.address.grpc
  <2>1. endpoint.host = CommandLine!ToldHost /\ endpoint.port = options.address.port
    BY <1>1, <1>3, <1>4 DEF CommandLine!Completed
  <2> QED
    BY <1>4, <2>1 DEF ConnectsWhereTold, CommandLine!ConnectsWhereTold
<1>5. CASE ~options.address.grpc
  <2>1. address = [Given EXCEPT !.grpc = TRUE, !.port = CommandLine!Port]
    BY <1>1, <1>3, <1>5 DEF CommandLine!Completed
  <2>2. address.host = Given.host /\ address.port = CommandLine!Port
    BY <1>3, <2>1 DEF CommandLine!Texts
  <2>3. endpoint.host = CommandLine!ToldHost /\ endpoint.port = CommandLine!Port
    BY <1>1, <1>3, <2>2
  <2>4. endpoint.host \in CommandLine!Ipv4 /\ options.address.port = CommandLine!NotGiven
    BY <1>1, <1>3, <1>5, <2>2 DEF AddressAccepted, CommandLine!IsIp, CommandLine!IsUri
  <2>5. CommandLine!PortIsTold
    BY <1>2, <2>3, StartupAssumption
    DEF CommandLine!Port, CommandLine!PortIsTold, CommandLine!CommandLineAssumption,
        CommandLine!NotGiven
  <2> QED
    BY <2>3, <2>4, <2>5 DEF ConnectsWhereTold, CommandLine!ConnectsWhereTold
<1> QED
  BY <1>4, <1>5

(* Two texts with a slash between them, and none within.                   *)
LEMMA TakenApartAtTheSlash ==
  ASSUME NEW S, "/" \in S, NEW a \in Seq(S), NEW b \in Seq(S), NEW e,
         e = a \o <<"/">> \o b,
         NEW slash, slash = Len(a) + 1,
         \A i \in 1..Len(a) : a[i] # "/",
         \A i \in 1..Len(b) : b[i] # "/"
  PROVE  /\ slash \in DOMAIN e
         /\ \A i \in DOMAIN e : e[i] = "/" <=> i = slash
         /\ SubSeq(e, 1, Len(a)) = a
         /\ SubSeq(e, slash + 1, Len(e)) = b
<1> DEFINE lower == SubSeq(e, 1, Len(a))
           upper == SubSeq(e, slash + 1, Len(e))
<1>1. e \in Seq(S) /\ Len(e) = Len(a) + 1 + Len(b) /\ Len(a) \in Nat /\ Len(b) \in Nat
  OBVIOUS
<1>2. /\ \A i \in 1..Len(a) : e[i] = a[i]
      /\ e[slash] = "/"
      /\ \A i \in 1..Len(b) : e[slash + i] = b[i]
  BY <1>1
<1>3. slash \in DOMAIN e
  BY <1>1
<1>4. ASSUME NEW i \in DOMAIN e PROVE e[i] = "/" <=> i = slash
  <2>1. \/ i \in 1..Len(a) \/ i = slash
        \/ i - slash \in 1..Len(b) /\ i = slash + (i - slash)
    BY <1>1
  <2>2. CASE i \in 1..Len(a)
    BY <1>1, <1>2, <2>2
  <2>3. CASE i = slash
    BY <1>2, <2>3
  <2>4. CASE i - slash \in 1..Len(b) /\ i = slash + (i - slash)
    BY <1>1, <1>2, <2>4
  <2> QED
    BY <2>1, <2>2, <2>3, <2>4
<1>5. lower = a
  BY <1>1, <1>2
<1>6. upper = b
  BY <1>1, <1>2
<1> QED
  BY <1>3, <1>4, <1>5, <1>6

(* The version has no slash, nor has a suffix that is accepted.            *)
LEMMA ConnectedAgentReadsBack == CommandInvariant => AgentReadsBack
<1> SUFFICES ASSUME CommandInvariant, stage \in {"connected", "mining"}
             PROVE  AgentReadsBack
  BY DEF AgentReadsBack, CommandLine!AgentReadsBack
<1> DEFINE S == {"0", ".", "2", "/", "x"}
           version == CommandLine!Version
           suffix == options.suffix
<1>1. version \in Seq(S) /\ Len(version) = 3 /\ \A i \in 1..Len(version) : version[i] # "/"
  BY DEF CommandLine!Version
<1>2. extraData = CommandLine!ExtraData /\ SuffixIsGood
  BY DEF CommandInvariant
<1>3. CASE suffix = CommandLine!NoSuffix
  BY <1>1, <1>2, <1>3 DEF CommandLine!ExtraData, AgentReadsBack, CommandLine!AgentReadsBack
<1>4. CASE suffix # CommandLine!NoSuffix
  <2>1. suffix \in CommandLine!GivenSuffixes
    BY <1>4 DEF CommandInvariant, CommandLine!Options
  <2>2. PICK m \in Nat : suffix \in [1..m -> CommandLine!Characters]
    BY <2>1, StartupAssumption
    DEF CommandLine!GivenSuffixes, CommandLine!CommandLineAssumption,
        CommandLine!BoundedSeq, CommandLine!SeqOf
  <2>3. suffix \in Seq(S) /\ Len(suffix) = m
    BY <2>2 DEF CommandLine!Characters
  <2>4. \A i \in 1..Len(suffix) : suffix[i] # "/"
    BY <1>2, <1>4 DEF SuffixIsGood, CommandLine!SuffixAccepted, CommandLine!Contains
  <2>5. extraData = version \o <<"/">> \o suffix
    BY <1>2, <1>4 DEF CommandLine!ExtraData
  <2> HIDE DEF version, suffix, S
  <2>6. /\ 4 \in DOMAIN extraData
        /\ \A i \in DOMAIN extraData : extraData[i] = "/" <=> i = 4
        /\ SubSeq(extraData, 1, 4 - 1) = version
        /\ SubSeq(extraData, 4 + 1, Len(extraData)) = suffix
    <3>1. "/" \in S
      BY DEF S
    <3>2. 4 = Len(version) + 1
      BY <1>1
    <3>3. version \in Seq(S) /\ suffix \in Seq(S)
      BY <1>1, <2>3
    <3>4. \A i \in 1..Len(version) : version[i] # "/"
      BY <1>1
    <3>5. 4 \in DOMAIN extraData
      BY <2>4, <2>5, <3>1, <3>2, <3>3, <3>4, TakenApartAtTheSlash
    <3>6. \A i \in DOMAIN extraData : extraData[i] = "/" <=> i = 4
      BY <2>4, <2>5, <3>1, <3>2, <3>3, <3>4, TakenApartAtTheSlash
    <3>7. SubSeq(extraData, 1, Len(version)) = version
      BY <2>4, <2>5, <3>1, <3>2, <3>3, <3>4, TakenApartAtTheSlash
    <3>8. SubSeq(extraData, 4 + 1, Len(extraData)) = suffix
      BY <2>4, <2>5, <3>1, <3>2, <3>3, <3>4, TakenApartAtTheSlash
    <3> QED
      BY <1>1, <3>5, <3>6, <3>7, <3>8
  <2>7. {n \in DOMAIN extraData : extraData[n] = "/"} = {4}
    BY <2>6
  <2> QED
    BY <1>4, <2>6, <2>7 DEF AgentReadsBack, CommandLine!AgentReadsBack, version, suffix
<1> QED
  BY <1>3, <1>4

(* The miner connects to the host that is named, or to the default host if *)
(* none is; at the port of the options or of the network, if the address is*)
(* an IP, and at the port in a complete address if no option speaks of it. *)
THEOREM Told == StartupSpec => []ConnectsWhereTold
BY CommandInvariantStart, CommandInvariantStep, ConnectedWhereTold, PTL DEF StartupSpec

(* The user agent can be taken apart again, whatever the suffix.           *)
THEOREM ReadsBack == StartupSpec => []AgentReadsBack
BY CommandInvariantStart, CommandInvariantStep, ConnectedAgentReadsBack, PTL DEF StartupSpec
=============================================================================
