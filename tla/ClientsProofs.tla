---------------------------- MODULE ClientsProofs ----------------------------
(* Of the clients of a session, each alone and then all of MCClients: the   *)
(* console's loop for any objects, any number of reloads and either         *)
(* provider; the blocking driver for threads of both kinds and any          *)
(* operations; the tunnel for any proxy: any bytes, any length of a named   *)
(* address, any pieces the bytes arrive in.                                 *)
EXTENDS MCClients, SequenceTheorems, TLAPS

-----------------------------------------------------------------------------
(* The console.                                                             *)

(* Plans taken from the cache or made now are of the present generation     *)
(* when those in the cache are.                                             *)
LEMMA PlannedIsFresh ==
  ASSUME NEW objects, \A o \in DOMAIN plans : plans[o] = snapshot
  PROVE  \A o \in DOMAIN Planned(objects) : Planned(objects)[o] = snapshot
BY DEF Planned

(* How a call of either provider ends.                                      *)
LEMMA AnswersEndTheCall == Answers => call # "none" /\ call' = "none"
BY DEF Answers, Postgres!Answer, MsSql!Answer

LEMMA DropsEndTheCall == Dropped => call' = "none" /\ answer' = "dropped"
BY DEF Dropped, Postgres!Drop, MsSql!Drop

(* The prompt comes back, or the console ends, and never both.              *)
LEMMA FailedGoesOn ==
  Failed => answer' = "error" /\ \/ status' = "dead" /\ mode' = "closing"
                                 \/ status' # "dead" /\ mode' = "prompt"
BY DEF Failed, Ends, Prompts

-----------------------------------------------------------------------------
(* Whatever one step does, it uses nothing of an older generation.          *)
LEMMA StepKeepsFresh == NothingStale /\ [ConsoleNext]_consoleVars => NothingStale'
<1> SUFFICES ASSUME NothingStale, [ConsoleNext]_consoleVars PROVE NothingStale'
  OBVIOUS
<1> USE DEF NothingStale, console
<1>1. CASE Discard \/ Continue \/ Leave
  BY <1>1 DEF Discard, Continue, Leave
<1>2. CASE Commands
  BY <1>2 DEF Commands, Command
<1>3. ASSUME NEW objects \in SUBSET Objects, Refuse(objects) PROVE NothingStale'
  BY <1>3, PlannedIsFresh DEF Refuse
<1>4. ASSUME NEW objects \in SUBSET Objects, NEW places, NEW runs,
             Compile(objects, places, runs)
      PROVE  NothingStale'
  BY <1>4, PlannedIsFresh DEF Compile
<1>5. CASE Statements
  BY <1>3, <1>4, <1>5 DEF Statements
<1>6. CASE Outcomes
  <2>1. CASE Started \/ Asked \/ Sections \/ SectionRead
    BY <2>1 DEF Started, Asked, Sections, SectionRead
  <2>2. CASE Refreshed
    <3>1. DOMAIN <<>> = {}
      OBVIOUS
    <3> QED BY <2>2, <3>1 DEF Refreshed
  <2>3. ASSUME NEW lookups, NEW sections, Answered(lookups, sections) PROVE NothingStale'
    BY <2>3 DEF Answered
  <2>4. ASSUME NEW o \in Objects, Present(o) PROVE NothingStale'
    BY <2>4, PlannedIsFresh DEF Present
  <2>5. ASSUME NEW o \in Objects, Presented(o) PROVE NothingStale'
    BY <2>5 DEF Presented
  <2> QED
    BY <1>6, <2>1, <2>2, <2>3, <2>4, <2>5 DEF Outcomes
<1>7. CASE Interrupt \/ Cancel \/ Cancelled \/ InterruptAgain \/ Signal
  BY <1>7 DEF Interrupt, Cancel, Cancelled, InterruptAgain, Signal
<1>8. CASE Close \/ Lose
  BY <1>8 DEF Close, Lose
<1>9. CASE UNCHANGED consoleVars
  BY <1>9 DEF consoleVars
<1> QED
  BY <1>1, <1>2, <1>5, <1>6, <1>7, <1>8, <1>9 DEF ConsoleNext

(* No plan and no temporary table compiled against an older generation of   *)
(* the metadata is used, whatever answered, failed or was interrupted.      *)
THEOREM ConsoleIsFresh == ConsoleSpec => []NothingStale
<1>1. ConsoleInit => NothingStale
  <2>1. DOMAIN <<>> = {}
    OBVIOUS
  <2> QED BY <2>1 DEF ConsoleInit, NothingStale
<1> QED
  BY <1>1, StepKeepsFresh, PTL DEF ConsoleSpec

-----------------------------------------------------------------------------
(* What makes DeathEnds inductive: a console that has ended stays as Close  *)
(* left it, a loss of the connection included.                              *)
InvEnded == mode = "ended" => status = "closed" /\ footer = FALSE

(* Each step either leaves an ended console alone and is not one that       *)
(* answers, or is one of the loop's, and then goes on as DeathEnds says.    *)
LEMMA StepEnds == ASSUME InvEnded, ConsoleNext PROVE DeathEnds /\ InvEnded'
<1> USE DEF InvEnded, DeathEnds, console, session
<1>1. CASE Discard \/ Continue \/ Leave
  BY <1>1 DEF Discard, Continue, Leave, Reading, Ends
<1>2. ASSUME NEW o, NEW m \in {"refreshing", "asking"}, Command(o, m), o # "none"
      PROVE  DeathEnds /\ InvEnded'
  BY <1>2 DEF Command, Reading, Call, Postgres!Call
<1>3. ASSUME NEW objects, Refuse(objects) PROVE DeathEnds /\ InvEnded'
  BY <1>3 DEF Refuse, Reading
<1>4. ASSUME NEW objects, NEW places, NEW runs, Compile(objects, places, runs)
      PROVE  DeathEnds /\ InvEnded'
  BY <1>4 DEF Compile, Reading, Call, Postgres!Call
<1>5. CASE Outcomes
  <2>1. CASE Started
    BY <2>1, AnswersEndTheCall DEF Started, Prompts, Ends, Call, Postgres!Call
  <2>2. CASE Refreshed
    BY <2>2, AnswersEndTheCall, FailedGoesOn DEF Refreshed, Prompts
  <2>3. CASE Asked
    BY <2>3, AnswersEndTheCall, FailedGoesOn DEF Asked, Prompts, Call, Postgres!Call
  <2>4. ASSUME NEW lookups, NEW sections, Answered(lookups, sections)
        PROVE  DeathEnds /\ InvEnded'
    BY <2>4, AnswersEndTheCall, FailedGoesOn DEF Answered
  <2>5. ASSUME NEW o, Present(o) PROVE DeathEnds /\ InvEnded'
    BY <2>5 DEF Present, Call, Postgres!Call
  <2>6. ASSUME NEW o, Presented(o) PROVE DeathEnds /\ InvEnded'
    BY <2>6, AnswersEndTheCall, FailedGoesOn DEF Presented
  <2>7. CASE Sections
    BY <2>7 DEF Sections, Prompts, Call, Postgres!Call
  <2>8. CASE SectionRead
    BY <2>8, AnswersEndTheCall DEF SectionRead, Ends
  <2> QED
    BY <1>5, <2>1, <2>2, <2>3, <2>4, <2>5, <2>6, <2>7, <2>8 DEF Outcomes
<1>6. CASE Interrupt \/ InterruptAgain
  BY <1>6, DropsEndTheCall DEF Interrupt, InterruptAgain, Ends
<1>7. CASE Cancel
  BY <1>7 DEF Cancel, Call, Postgres!Call
<1>8. CASE Cancelled
  BY <1>8, AnswersEndTheCall DEF Cancelled, Prompts, Ends
<1>9. CASE Signal
  BY <1>9 DEF Signal, Waiting, Querying
<1>10. CASE Close
  BY <1>10 DEF Close, Postgres!Close
<1>11. CASE Lose
  BY <1>11 DEF Lose, Lost, Postgres!Lose
<1>12. CASE Commands
  BY <1>2, <1>12 DEF Commands
<1>13. CASE Statements
  BY <1>3, <1>4, <1>13 DEF Statements
<1> QED
  BY <1>1, <1>5, <1>6, <1>7, <1>8, <1>9, <1>10, <1>11, <1>12, <1>13 DEF ConsoleNext

(* Wherever a session dies under a call that fails, the console ends, and   *)
(* an ended console has closed its session and restored the terminal, for   *)
(* either provider and a signal at any moment.                              *)
THEOREM DeathAlwaysEnds == ConsoleSpec => [][DeathEnds]_consoleVars
<1>1. ConsoleInit => InvEnded
  BY DEF ConsoleInit, InvEnded
<1>2. InvEnded /\ [ConsoleNext]_consoleVars => InvEnded'
  <2>1. InvEnded /\ UNCHANGED consoleVars => InvEnded'
    BY DEF InvEnded, consoleVars, session
  <2> QED BY <2>1, StepEnds
<1>3. InvEnded /\ [ConsoleNext]_consoleVars => [DeathEnds]_consoleVars
  BY StepEnds
<1> QED
  BY <1>1, <1>2, <1>3, PTL DEF ConsoleSpec
-----------------------------------------------------------------------------
(* The blocking driver.                                                     *)

(* What makes RuntimeRespected inductive: a session that was consumed is    *)
(* not held, a driver without a runtime never had one, and a thread blocks  *)
(* on a session the driver holds.                                           *)
DriverTypes ==
  /\ held \in BOOLEAN
  /\ thread \in {"sync", "async"}
  /\ runtime \in {"none", "idle", "blocked", "dropped", "background"}

InvHeld ==
  /\ released # "nowhere" => ~held
  /\ runtime = "none" => ~held /\ released = "nowhere"
  /\ runtime = "blocked" => held

DriverInv == DriverTypes /\ InvHeld

(* What a session answers is never the driver's own refusal.                *)
LEMMA AnswersAreNoRefusal == "AsyncContext" \notin Session!Answers
BY DEF Session!Answers

-----------------------------------------------------------------------------
(* A driver that has not connected satisfies the invariant.                 *)
LEMMA DriverBegins == DriverInit => DriverInv
BY DEF DriverInit, DriverInv, DriverTypes, InvHeld

(* Every call, answer and loss keeps it.                                    *)
LEMMA DriverGoesOn == DriverInv /\ [DriverNext]_driverVars => DriverInv'
<1> SUFFICES ASSUME DriverInv, [DriverNext]_driverVars PROVE DriverInv'
  OBVIOUS
<1> USE DEF DriverInv, DriverTypes, InvHeld
<1>1. CASE Connect
  <2>1. released' = "nowhere" /\ thread' \in {"sync", "async"}
    BY <1>1 DEF Connect
  <2>2. CASE UNCHANGED <<runtime, held>>
    BY <2>1, <2>2
  <2>3. CASE runtime' = "idle" /\ held' = TRUE
    BY <2>1, <2>3
  <2> QED BY <1>1, <2>2, <2>3 DEF Connect
<1>2. ASSUME NEW o \in Operations, Operate(o) PROVE DriverInv'
  BY <1>2 DEF Operate, Ready, Open, Refused
<1>3. CASE Returned
  BY <1>3 DEF Returned
<1>4. CASE CloseDriver
  BY <1>4 DEF CloseDriver, Ready, Open, Refused
<1>5. CASE DropDriver
  BY <1>5 DEF DropDriver, Ready, Refused
<1>6. CASE Disconnect
  BY <1>6 DEF Disconnect
<1>7. CASE UNCHANGED driverVars
  BY <1>7 DEF driverVars
<1> QED
  BY <1>1, <1>2, <1>3, <1>4, <1>5, <1>6, <1>7 DEF DriverNext

-----------------------------------------------------------------------------
(* What one step may do to the runtime, the session and the result: the     *)
(* body of RuntimeRespected.                                                *)
Respects ==
  /\ runtime' \in {"blocked", "dropped"} /\ runtime' # runtime => thread' = "sync"
  /\ result' = "AsyncContext" /\ result # result' => UNCHANGED <<session, held>>
  /\ released # "nowhere" /\ result' # result => result' = "SessionClosed"
  /\ ~held /\ held' => released = "nowhere"
  /\ held /\ ~held' => released' \in {"close", "context"} /\ runtime # "blocked"

LEMMA StepRespects == ASSUME DriverInv, [DriverNext]_driverVars PROVE Respects \/ UNCHANGED driverVars
<1> USE DEF DriverInv, DriverTypes, InvHeld, Respects
<1>1. CASE Connect
  BY <1>1 DEF Connect, Refused
<1>2. ASSUME NEW o \in Operations, Operate(o) PROVE Respects
  BY <1>2 DEF Operate, Ready, Open, OpenError, Refused
<1>3. CASE Returned
  <2>1. result' \in Session!Answers
    BY <1>3 DEF Returned, Session!Answer
  <2> QED BY <1>3, <2>1, AnswersAreNoRefusal DEF Returned
<1>4. CASE CloseDriver
  BY <1>4 DEF CloseDriver, Ready, Open, OpenError, Refused
<1>5. CASE DropDriver
  BY <1>5 DEF DropDriver, Ready, Refused
<1>6. CASE Disconnect
  BY <1>6 DEF Disconnect
<1> QED
  BY <1>1, <1>2, <1>3, <1>4, <1>5, <1>6 DEF DriverNext

-----------------------------------------------------------------------------
(* A thread that drives a runtime of its own never blocks on the driver's   *)
(* nor drops it synchronously, a refusal leaves the session as it was, and  *)
(* a session is consumed once and answers SessionClosed from then on: for   *)
(* every sequence of calls from threads of both kinds (blocking.rs).        *)
THEOREM DriverRespectsRuntime == DriverSpec => RuntimeRespected
<1>1. DriverInit => DriverInv
  BY DriverBegins
<1>2. DriverInv /\ [DriverNext]_driverVars => DriverInv'
  BY DriverGoesOn
<1>3. DriverInv /\ [DriverNext]_driverVars => [Respects]_driverVars
  BY StepRespects
<1> QED
  BY <1>1, <1>2, <1>3, PTL DEF DriverSpec, RuntimeRespected, Respects
-----------------------------------------------------------------------------
(* The tunnel.                                                              *)

(* The bytes of the optional parts.                                         *)
LoginLength == IF script.method = 2 THEN 2 ELSE 0
NameLength == IF script.head[4] = 3 THEN 1 ELSE 0

(* What the client writes.                                                  *)
Messages == {"offer none", "offer password", "credentials", "connect"}

(* What makes TunnelIsClean inductive: at every await the client has read   *)
(* the whole answers before it, and knows what they said.                   *)
TunnelTypes ==
  /\ script \in Scripts /\ secured \in BOOLEAN
  /\ arrived \in 0..Len(Stream) /\ consumed \in 0..arrived
  /\ sent \in Seq(Messages) /\ address \in Nat
  /\ phase \in {"start", "method", "login", "reply", "length", "address", "open", "failed"}

InvPlace ==
  /\ phase \in {"start", "method"} => consumed = 0
  /\ phase = "login" => consumed = 2
  /\ phase = "reply" => consumed = 2 + LoginLength
  /\ phase = "length" => consumed = 6 + LoginLength /\ script.head[4] = 3
  /\ phase = "address" =>
       consumed = 6 + LoginLength + NameLength /\ address = Len(script.bound)
  /\ phase = "open" => consumed = 8 + LoginLength + NameLength + Len(script.bound)
  /\ phase \in {"length", "address", "open"} => script.head[2] = 0

Shown == \E i \in 1..Len(sent) : sent[i] = "credentials"

InvSecret ==
  /\ phase \in {"start", "method"} => ~Shown
  /\ phase = "login" => Shown
  /\ phase \in {"reply", "length", "address", "open"} =>
       /\ secured => Shown /\ script.login = <<1, 0>>
       /\ script.method = IF secured THEN 2 ELSE 0
  /\ Shown => secured /\ script.method = 2

TunnelInv == TunnelTypes /\ InvPlace /\ InvSecret

-----------------------------------------------------------------------------
(* Where the elements of two joined sequences are.                          *)
LEMMA Joined ==
  ASSUME NEW s \in Seq(Nat), NEW t \in Seq(Nat)
  PROVE  /\ s \o t \in Seq(Nat) /\ Len(s) \in Nat /\ Len(t) \in Nat
         /\ Len(s \o t) = Len(s) + Len(t)
         /\ \A i \in 1..Len(s) : (s \o t)[i] = s[i]
         /\ \A i \in 1..Len(t) : (s \o t)[Len(s) + i] = t[i]
<1>1. Len(s) \in Nat /\ Len(t) \in Nat
  BY LenProperties
<1>2. \A i \in 1..Len(s) + Len(t) :
        (s \o t)[i] = IF i <= Len(s) THEN s[i] ELSE t[i - Len(s)]
  BY ConcatProperties
<1>3. \A i \in 1..Len(s) : (s \o t)[i] = s[i]
  BY <1>1, <1>2
<1>4. ASSUME NEW i \in 1..Len(t) PROVE (s \o t)[Len(s) + i] = t[i]
  <2>1. Len(s) + i \in 1..Len(s) + Len(t) /\ ~(Len(s) + i <= Len(s))
        /\ (Len(s) + i) - Len(s) = i
    BY <1>1
  <2> QED BY <2>1, <1>2
<1>5. s \o t \in Seq(Nat) /\ Len(s \o t) = Len(s) + Len(t)
  BY ConcatProperties
<1> QED BY <1>1, <1>3, <1>4, <1>5

(* Where each part of the stream begins, and that it ends with the first    *)
(* byte of the database.                                                    *)
LEMMA StreamShape ==
  ASSUME ScriptsTyped, script \in Scripts
  PROVE  /\ Stream \in Seq(Nat)
         /\ Len(Stream) = 9 + LoginLength + NameLength + Len(script.bound)
         /\ Stream[1] = script.version /\ Stream[2] = script.method
         /\ script.method = 2 => \A i \in 1..2 : Stream[2 + i] = script.login[i]
         /\ \A i \in 1..4 : Stream[2 + LoginLength + i] = script.head[i]
         /\ script.head[4] = 3 => Stream[7 + LoginLength] = Len(script.bound)
         /\ Stream[Len(Stream)] = Database
<1> DEFINE a == <<script.version, script.method>>
           b == IF script.method = 2 THEN script.login ELSE <<>>
           c == script.head
           d == IF script.head[4] = 3 THEN <<Len(script.bound)>> ELSE <<>>
           e == script.bound
           f == <<0, 0>>
           g == <<Database>>
<1>1. /\ a \in Seq(Nat) /\ Len(a) = 2 /\ a[1] = script.version /\ a[2] = script.method
  BY DEF ScriptsTyped
<1>2. b \in Seq(Nat) /\ Len(b) = LoginLength
  <2>1. script.login \in Seq(Nat) /\ Len(script.login) = 2
    BY DEF ScriptsTyped
  <2>2. CASE script.method = 2
    BY <2>1, <2>2 DEF LoginLength
  <2>3. CASE script.method # 2
    BY <2>3 DEF LoginLength
  <2> QED BY <2>2, <2>3
<1>3. c \in Seq(Nat) /\ Len(c) = 4
  BY DEF ScriptsTyped
<1>4. d \in Seq(Nat) /\ Len(d) = NameLength
  BY DEF ScriptsTyped, NameLength
<1>5. e \in Seq(Nat) /\ Len(e) \in Nat
  BY DEF ScriptsTyped
<1>6. f \in Seq(Nat) /\ Len(f) = 2 /\ g \in Seq(Nat) /\ Len(g) = 1 /\ g[1] = Database
  BY DEF Database
<1>7. LoginLength \in Nat /\ NameLength \in Nat
  BY DEF LoginLength, NameLength
<1>8. Stream = a \o b \o c \o d \o e \o f \o g
  BY DEF Stream
<1> HIDE DEF a, b, c, d, e, f, g
<1> DEFINE ab == a \o b
           abc == ab \o c
           abcd == abc \o d
           all == abcd \o e \o f
<1>11. /\ ab \in Seq(Nat) /\ Len(ab) = 2 + LoginLength
       /\ ab[1] = script.version /\ ab[2] = script.method
       /\ \A i \in 1..LoginLength : ab[2 + i] = b[i]
  <2>1. /\ ab \in Seq(Nat) /\ Len(ab) = Len(a) + Len(b)
        /\ \A i \in 1..Len(a) : ab[i] = a[i]
        /\ \A i \in 1..Len(b) : ab[Len(a) + i] = b[i]
    BY <1>1, <1>2, Joined
  <2> HIDE DEF ab
  <2> QED BY <1>1, <1>2, <2>1
<1>12. /\ abc \in Seq(Nat) /\ Len(abc) = 6 + LoginLength
       /\ \A i \in 1..2 + LoginLength : abc[i] = ab[i]
       /\ \A i \in 1..4 : abc[2 + LoginLength + i] = c[i]
  <2> HIDE DEF ab
  <2>1. /\ abc \in Seq(Nat) /\ Len(abc) = Len(ab) + Len(c)
        /\ \A i \in 1..Len(ab) : abc[i] = ab[i]
        /\ \A i \in 1..Len(c) : abc[Len(ab) + i] = c[i]
    BY <1>11, <1>3, Joined
  <2> HIDE DEF abc
  <2> QED BY <1>11, <1>3, <1>7, <2>1
<1>13. /\ abcd \in Seq(Nat) /\ Len(abcd) = 6 + LoginLength + NameLength
       /\ \A i \in 1..6 + LoginLength : abcd[i] = abc[i]
       /\ \A i \in 1..NameLength : abcd[6 + LoginLength + i] = d[i]
  <2> HIDE DEF abc
  <2>1. /\ abcd \in Seq(Nat) /\ Len(abcd) = Len(abc) + Len(d)
        /\ \A i \in 1..Len(abc) : abcd[i] = abc[i]
        /\ \A i \in 1..Len(d) : abcd[Len(abc) + i] = d[i]
    BY <1>12, <1>4, Joined
  <2> HIDE DEF abcd
  <2> QED BY <1>12, <1>4, <1>7, <2>1
<1>14. /\ all \in Seq(Nat) /\ Len(all) = 8 + LoginLength + NameLength + Len(e)
       /\ \A i \in 1..6 + LoginLength + NameLength : all[i] = abcd[i]
  <2> HIDE DEF abcd
  <2> DEFINE named == abcd \o e
  <2>1. /\ named \in Seq(Nat) /\ Len(named) = Len(abcd) + Len(e)
        /\ \A i \in 1..Len(abcd) : named[i] = abcd[i]
    BY <1>13, <1>5, Joined
  <2>2. all = named \o f
    OBVIOUS
  <2> HIDE DEF named, all
  <2>3. /\ all \in Seq(Nat) /\ Len(all) = Len(named) + Len(f)
        /\ \A i \in 1..Len(named) : all[i] = named[i]
    BY <2>1, <2>2, <1>6, Joined
  <2>4. Len(named) = 6 + LoginLength + NameLength + Len(e)
    BY <1>13, <2>1
  <2>5. ASSUME NEW i \in 1..6 + LoginLength + NameLength PROVE all[i] = abcd[i]
    <3>1. i \in 1..Len(abcd) /\ i \in 1..Len(named)
      BY <1>13, <1>5, <1>7, <2>4
    <3> QED BY <3>1, <2>1, <2>3
  <2> QED BY <1>5, <1>6, <1>7, <2>3, <2>4, <2>5
<1>15. /\ Stream \in Seq(Nat) /\ Len(Stream) = 9 + LoginLength + NameLength + Len(e)
       /\ \A i \in 1..8 + LoginLength + NameLength + Len(e) : Stream[i] = all[i]
       /\ Stream[Len(Stream)] = Database
  <2>1. Stream = all \o g
    BY <1>8
  <2> HIDE DEF all
  <2>2. /\ Stream \in Seq(Nat) /\ Len(Stream) = Len(all) + Len(g)
        /\ \A i \in 1..Len(all) : Stream[i] = all[i]
        /\ \A i \in 1..Len(g) : Stream[Len(all) + i] = g[i]
    BY <2>1, <1>14, <1>6, Joined
  <2> QED BY <2>2, <1>14, <1>5, <1>6, <1>7
<1> HIDE DEF ab, abc, abcd, all
<1>20. \A i \in 1..6 + LoginLength + NameLength : Stream[i] = abcd[i]
  BY <1>14, <1>15, <1>5, <1>7
<1>21. \A i \in 1..6 + LoginLength : Stream[i] = abc[i]
  BY <1>13, <1>20, <1>7
<1>22. \A i \in 1..2 + LoginLength : Stream[i] = ab[i]
  <2>1. \A i \in 1..2 + LoginLength : i \in 1..6 + LoginLength
    BY <1>7
  <2> QED BY <2>1, <1>21, <1>12
<1>23. Stream[1] = script.version /\ Stream[2] = script.method
  BY <1>22, <1>11, <1>7
<1>24. script.method = 2 => \A i \in 1..2 : Stream[2 + i] = script.login[i]
  <2>1. ASSUME script.method = 2, NEW i \in 1..2 PROVE Stream[2 + i] = b[i]
    <3>1. LoginLength = 2
      BY <2>1 DEF LoginLength
    <3> QED BY <3>1, <1>22, <1>11, <1>7
  <2> QED BY <2>1 DEF b
<1>25. \A i \in 1..4 : Stream[2 + LoginLength + i] = script.head[i]
  <2>1. ASSUME NEW i \in 1..4 PROVE Stream[2 + LoginLength + i] = c[i]
    <3>1. 2 + LoginLength + i \in 1..6 + LoginLength
      BY <1>7
    <3> QED BY <3>1, <1>21, <1>12
  <2> QED BY <2>1 DEF c
<1>26. ASSUME script.head[4] = 3 PROVE Stream[7 + LoginLength] = Len(script.bound)
  <2>1. NameLength = 1 /\ d = <<Len(script.bound)>>
    BY <1>26 DEF NameLength, d
  <2>2. abcd[7 + LoginLength] = Len(script.bound)
    BY <2>1, <1>13, <1>7
  <2> QED BY <2>1, <2>2, <1>20, <1>7
<1>27. Len(Stream) = 9 + LoginLength + NameLength + Len(script.bound)
  BY <1>15 DEF e
<1> QED
  BY <1>15, <1>23, <1>24, <1>25, <1>26, <1>27

(* read_exact returns the next bytes of the stream.                         *)
LEMMA BytesOfStream ==
  ASSUME ScriptsTyped, TunnelTypes, NEW n \in Nat, Available(n)
  PROVE  /\ consumed + n <= arrived
         /\ Bytes(n) \in Seq(Nat) /\ Len(Bytes(n)) = n
         /\ \A i \in 1..n : Bytes(n)[i] = Stream[consumed + i]
<1>1. Stream \in Seq(Nat) /\ Len(Stream) \in Nat
  BY StreamShape, LenProperties DEF TunnelTypes
<1>2. consumed \in Nat /\ arrived \in Nat /\ consumed + n <= arrived /\ arrived <= Len(Stream)
  BY <1>1 DEF TunnelTypes, Available
<1>3. /\ consumed + 1 \in Int /\ consumed + n \in Int
      /\ \A i \in consumed + 1..consumed + n : Stream[i] \in Nat
  <2>1. \A i \in 1..Len(Stream) : Stream[i] \in Nat
    BY <1>1, ElementOfSeq
  <2> QED BY <1>1, <1>2, <2>1
<1>4. /\ SubSeq(Stream, consumed + 1, consumed + n) \in Seq(Nat)
      /\ Len(SubSeq(Stream, consumed + 1, consumed + n)) =
           IF consumed + 1 <= consumed + n
           THEN (consumed + n) - (consumed + 1) + 1 ELSE 0
      /\ \A i \in 1..(consumed + n) - (consumed + 1) + 1 :
           SubSeq(Stream, consumed + 1, consumed + n)[i] = Stream[(consumed + 1) + i - 1]
  BY <1>3, SubSeqProperties
<1>5. (consumed + n) - (consumed + 1) + 1 = n
  BY <1>2
<1>6. ASSUME NEW i \in 1..n PROVE Bytes(n)[i] = Stream[consumed + i]
  <2>1. (consumed + 1) + i - 1 = consumed + i
    BY <1>2
  <2> QED BY <1>4, <1>5, <2>1 DEF Bytes
<1> QED BY <1>2, <1>4, <1>5, <1>6 DEF Bytes

(* A sequence of one.                                                       *)
LEMMA Single ==
  ASSUME NEW S, NEW m \in S
  PROVE  <<m>> \in Seq(S) /\ Len(<<m>>) = 1 /\ <<m>>[1] = m
OBVIOUS

(* What is left of a stream of which one byte is left.                      *)
LEMMA LastByte ==
  ASSUME NEW s \in Seq(Nat), NEW n \in Nat, s[n] \in Nat
  PROVE  SubSeq(s, n, n) = <<s[n]>>
<1>1. /\ n \in Int /\ n <= n /\ n - n + 1 = 1 /\ n + 1 - 1 = n
      /\ \A i \in n..n : s[i] \in Nat
  OBVIOUS
<1>2. /\ SubSeq(s, n, n) \in Seq(Nat)
      /\ Len(SubSeq(s, n, n)) = IF n <= n THEN n - n + 1 ELSE 0
      /\ \A i \in 1..n - n + 1 : SubSeq(s, n, n)[i] = s[n + i - 1]
  BY <1>1, SubSeqProperties
<1>3. Len(SubSeq(s, n, n)) = 1 /\ SubSeq(s, n, n)[1] = s[n]
  BY <1>1, <1>2
<1>4. <<s[n]>> \in Seq(Nat) /\ Len(<<s[n]>>) = 1 /\ <<s[n]>>[1] = s[n]
  OBVIOUS
<1> DEFINE one == SubSeq(s, n, n)
           last == <<s[n]>>
<1> HIDE DEF one, last
<1>5. /\ one \in Seq(Nat) /\ last \in Seq(Nat) /\ Len(one) = Len(last)
      /\ \A i \in 1..Len(one) : one[i] = last[i]
  BY <1>2, <1>3, <1>4 DEF one, last
<1>6. one = last
  BY <1>5, SeqEqual
<1> QED BY <1>6 DEF one, last

(* What is sent stays sent.                                                 *)
LEMMA SentGrows ==
  ASSUME TunnelTypes, NEW m \in Messages, sent' = Append(sent, m)
  PROVE  /\ sent' \in Seq(Messages)
         /\ Shown' <=> Shown \/ m = "credentials"
<1>1. Len(sent) \in Nat /\ Len(sent') = Len(sent) + 1 /\ sent' \in Seq(Messages)
  BY DEF TunnelTypes
<1>2. \A i \in 1..Len(sent) : sent'[i] = sent[i]
  BY DEF TunnelTypes
<1>3. sent'[Len(sent) + 1] = m
  BY DEF TunnelTypes
<1>4. Shown \/ m = "credentials" => Shown'
  BY <1>1, <1>2, <1>3 DEF Shown
<1>5. Shown' => Shown \/ m = "credentials"
  <2>1. ASSUME NEW i \in 1..Len(sent'), sent'[i] = "credentials"
        PROVE  Shown \/ m = "credentials"
    <3>1. i \in 1..Len(sent) \/ i = Len(sent) + 1
      BY <1>1
    <3> QED BY <2>1, <3>1, <1>2, <1>3 DEF Shown
  <2> QED BY <2>1 DEF Shown
<1> QED BY <1>1, <1>4, <1>5

(* The answers already read stay read while the rest arrives.               *)
LEMMA TakenType ==
  ASSUME ScriptsTyped, TunnelTypes, NEW n \in Nat, Available(n), Took(n)
  PROVE  /\ Stream' = Stream /\ LoginLength' = LoginLength /\ NameLength' = NameLength
         /\ script' = script /\ secured' = secured
         /\ script' \in Scripts /\ secured' \in BOOLEAN
         /\ arrived' \in 0..Len(Stream') /\ consumed' \in 0..arrived'
         /\ consumed' = consumed + n
<1>1. script' = script /\ secured' = secured /\ arrived' = arrived
  BY DEF Took
<1>2. Stream' = Stream /\ LoginLength' = LoginLength /\ NameLength' = NameLength
  BY <1>1 DEF Stream, LoginLength, NameLength
<1>3. consumed' = consumed + n /\ consumed' \in 0..arrived
  BY BytesOfStream DEF Took, TunnelTypes
<1> QED BY <1>1, <1>2, <1>3 DEF TunnelTypes

-----------------------------------------------------------------------------
(* A client that has not begun satisfies the invariant.                     *)
LEMMA TunnelBegins == ASSUME ScriptsTyped, TunnelInit PROVE TunnelInv
<1>1. script \in Scripts /\ Len(Stream) \in Nat
  BY StreamShape, LenProperties DEF TunnelInit
<1>2. sent = <<>> /\ sent \in Seq(Messages) /\ ~Shown
  BY DEF TunnelInit, Shown
<1> QED
  BY <1>1, <1>2 DEF TunnelInit, TunnelInv, TunnelTypes, InvPlace, InvSecret

(* The answer to the method offered: the client goes on without credentials *)
(* only where none are configured.                                          *)
LEMMA MethodStep == ASSUME ScriptsTyped, TunnelInv, MethodRead PROVE TunnelInv'
<1>1. /\ phase = "method" /\ consumed = 0 /\ ~Shown /\ Available(2) /\ Took(2)
      /\ address' = address
  BY DEF MethodRead, TunnelInv, InvPlace, InvSecret
<1>2. TunnelTypes /\ script \in Scripts
  BY DEF TunnelInv, TunnelTypes
<1>3. Bytes(2)[1] = script.version /\ Bytes(2)[2] = script.method /\ Len(Bytes(2)) = 2
  <2>1. Len(Bytes(2)) = 2 /\ \A i \in 1..2 : Bytes(2)[i] = Stream[consumed + i]
    BY <1>1, <1>2, BytesOfStream
  <2>2. consumed + 1 = 1 /\ consumed + 2 = 2 /\ 1 \in 1..2 /\ 2 \in 1..2
    BY <1>1
  <2>3. Bytes(2)[1] = Stream[1] /\ Bytes(2)[2] = Stream[2]
    BY <2>1, <2>2
  <2> QED BY <1>2, <2>1, <2>3, StreamShape
<1>4. /\ script' = script /\ secured' = secured
      /\ script' \in Scripts /\ secured' \in BOOLEAN
      /\ arrived' \in 0..Len(Stream') /\ consumed' \in 0..arrived'
      /\ consumed' = 2 /\ LoginLength' = LoginLength /\ address' \in Nat
  BY <1>1, <1>2, TakenType DEF TunnelTypes
<1>5. CASE Bytes(2) = <<5, 0>> /\ ~secured /\ phase' = "reply" /\ sent' = Append(sent, "connect")
  <2>1. sent' \in Seq(Messages) /\ ~Shown'
    BY <1>1, <1>2, <1>5, SentGrows DEF Messages
  <2>2. script.method = 0 /\ LoginLength = 0
    BY <1>3, <1>5 DEF LoginLength
  <2> QED BY <1>4, <1>5, <2>1, <2>2 DEF TunnelInv, TunnelTypes, InvPlace, InvSecret
<1>6. CASE Bytes(2) = <<5, 2>> /\ secured /\ phase' = "login" /\ sent' = Append(sent, "credentials")
  <2>1. sent' \in Seq(Messages) /\ Shown'
    BY <1>1, <1>2, <1>6, SentGrows DEF Messages
  <2>2. script.method = 2
    BY <1>3, <1>6
  <2> QED BY <1>4, <1>6, <2>1, <2>2 DEF TunnelInv, TunnelTypes, InvPlace, InvSecret
<1>7. CASE Fail
  <2>1. sent' = sent /\ (Shown' <=> Shown) /\ phase' = "failed"
    BY <1>7 DEF Fail, Shown
  <2> QED BY <1>1, <1>2, <1>4, <2>1 DEF TunnelInv, TunnelTypes, InvPlace, InvSecret
<1> QED BY <1>5, <1>6, <1>7 DEF MethodRead

(* The answer to the credentials.                                           *)
LEMMA LoginStep == ASSUME ScriptsTyped, TunnelInv, LoginRead PROVE TunnelInv'
<1>1. /\ phase = "login" /\ consumed = 2 /\ Shown /\ Available(2) /\ Took(2)
      /\ address' = address /\ secured /\ script.method = 2 /\ LoginLength = 2
  BY DEF LoginRead, TunnelInv, InvPlace, InvSecret, LoginLength
<1>2. TunnelTypes /\ script \in Scripts
  BY DEF TunnelInv, TunnelTypes
<1>3. /\ script' = script /\ secured' = secured
      /\ script' \in Scripts /\ secured' \in BOOLEAN
      /\ arrived' \in 0..Len(Stream') /\ consumed' \in 0..arrived'
      /\ consumed' = 4 /\ LoginLength' = LoginLength /\ address' \in Nat
  <2>1. address' \in Nat
    BY <1>1, <1>2 DEF TunnelTypes
  <2>2. consumed' = consumed + 2
    BY <1>1, <1>2, TakenType
  <2>3. consumed' = 4
    BY <1>1, <2>2
  <2> QED BY <1>1, <1>2, <2>1, <2>3, TakenType
<1>4. CASE Bytes(2) = <<1, 0>> /\ phase' = "reply" /\ sent' = Append(sent, "connect")
  <2>1. sent' \in Seq(Messages) /\ Shown'
    BY <1>1, <1>2, <1>4, SentGrows DEF Messages
  <2>2. Len(Bytes(2)) = 2 /\ \A i \in 1..2 : Bytes(2)[i] = Stream[consumed + i]
    BY <1>1, <1>2, BytesOfStream
  <2>3. \A i \in 1..2 : Stream[2 + i] = script.login[i]
    BY <1>1, <1>2, StreamShape
  <2>4. script.login[1] = 1 /\ script.login[2] = 0
    BY <1>1, <1>4, <2>2, <2>3
  <2>5. script.login \in Seq(Nat) /\ Len(script.login) = 2
    BY <1>2 DEF ScriptsTyped
  <2>6. script.login = <<1, 0>>
    BY <2>4, <2>5
  <2> QED BY <1>1, <1>3, <1>4, <2>1, <2>6 DEF TunnelInv, TunnelTypes, InvPlace, InvSecret
<1>5. CASE Fail
  <2>1. sent' = sent /\ (Shown' <=> Shown) /\ phase' = "failed"
    BY <1>5 DEF Fail, Shown
  <2> QED BY <1>1, <1>2, <1>3, <2>1 DEF TunnelInv, TunnelTypes, InvPlace, InvSecret
<1> QED BY <1>4, <1>5 DEF LoginRead

(* The fixed part of the answer to CONNECT says how long the rest is.       *)
LEMMA ReplyStep == ASSUME ScriptsTyped, AddressesAsTyped, TunnelInv, ReplyRead PROVE TunnelInv'
<1>1. /\ phase = "reply" /\ consumed = 2 + LoginLength /\ Available(4) /\ Took(4)
      /\ sent' = sent /\ (Shown' <=> Shown)
  BY DEF ReplyRead, Fail, TunnelInv, InvPlace, Shown
<1>2. TunnelTypes /\ script \in Scripts /\ LoginLength \in Nat
  BY DEF TunnelInv, TunnelTypes, LoginLength
<1>3. \A i \in 1..4 : Bytes(4)[i] = script.head[i]
  <2>1. \A i \in 1..4 : Bytes(4)[i] = Stream[consumed + i]
    BY <1>1, <1>2, BytesOfStream
  <2>2. \A i \in 1..4 : Stream[2 + LoginLength + i] = script.head[i]
    BY <1>2, StreamShape
  <2> QED BY <1>1, <2>1, <2>2
<1>4. /\ script' = script /\ secured' = secured
      /\ script' \in Scripts /\ secured' \in BOOLEAN
      /\ arrived' \in 0..Len(Stream') /\ consumed' \in 0..arrived'
      /\ consumed' = 6 + LoginLength /\ LoginLength' = LoginLength /\ NameLength' = NameLength
  BY <1>1, <1>2, TakenType
<1>5. sent' \in Seq(Messages)
  BY <1>1, <1>2 DEF TunnelTypes
<1>6. CASE phase' = "failed" /\ address' = address
  BY <1>1, <1>2, <1>4, <1>5, <1>6 DEF TunnelInv, TunnelTypes, InvPlace, InvSecret
<1>7. ASSUME ~(phase' = "failed" /\ address' = address)
      PROVE  /\ script.head[2] = 0 /\ script.head[4] \in {1, 3, 4}
             /\ phase' = IF script.head[4] = 3 THEN "length" ELSE "address"
             /\ address' = CASE script.head[4] = 1 -> 4 [] script.head[4] = 4 -> 16 [] OTHER -> 0
  <2>1. /\ Bytes(4)[2] = script.head[2] /\ Bytes(4)[4] = script.head[4]
    BY <1>3
  <2> QED BY <1>7, <2>1 DEF ReplyRead, Fail
<1>8. CASE ~(phase' = "failed" /\ address' = address)
  <2>1. CASE script.head[4] = 3
    <3>1. phase' = "length" /\ address' = 0
      BY <1>7, <1>8, <2>1
    <3> QED BY <1>1, <1>2, <1>4, <1>5, <1>7, <1>8, <2>1, <3>1
            DEF TunnelInv, TunnelTypes, InvPlace, InvSecret
  <2>2. CASE script.head[4] # 3
    <3>1. phase' = "address" /\ address' = Len(script.bound) /\ address' \in Nat
      <4>1. script.head[4] = 1 \/ script.head[4] = 4
        BY <1>7, <1>8, <2>2
      <4>2. CASE script.head[4] = 1
        BY <1>2, <1>7, <1>8, <4>2 DEF AddressesAsTyped
      <4>3. CASE script.head[4] = 4
        BY <1>2, <1>7, <1>8, <4>3 DEF AddressesAsTyped
      <4> QED BY <4>1, <4>2, <4>3
    <3>2. NameLength = 0
      BY <2>2 DEF NameLength
    <3> QED BY <1>1, <1>2, <1>4, <1>5, <1>7, <1>8, <2>2, <3>1, <3>2
            DEF TunnelInv, TunnelTypes, InvPlace, InvSecret
  <2> QED BY <2>1, <2>2
<1> QED BY <1>6, <1>8

(* The length of a named address is the byte before it.                     *)
LEMMA LengthStep == ASSUME ScriptsTyped, TunnelInv, LengthRead PROVE TunnelInv'
<1>1. /\ phase = "length" /\ consumed = 6 + LoginLength /\ script.head[4] = 3
      /\ Available(1) /\ Took(1) /\ phase' = "address"
      /\ address' = Bytes(1)[1] /\ sent' = sent /\ (Shown' <=> Shown)
  BY DEF LengthRead, TunnelInv, InvPlace, Shown
<1>2. TunnelTypes /\ script \in Scripts /\ LoginLength \in Nat /\ NameLength = 1
  BY <1>1 DEF TunnelInv, TunnelTypes, LoginLength, NameLength
<1>3. address' = Len(script.bound) /\ address' \in Nat
  <2>1. \A i \in 1..1 : Bytes(1)[i] = Stream[consumed + i]
    BY <1>1, <1>2, BytesOfStream
  <2>2. Stream[7 + LoginLength] = Len(script.bound)
    BY <1>1, <1>2, StreamShape
  <2>3. Len(script.bound) \in Nat
    BY <1>2, LenProperties DEF ScriptsTyped
  <2>4. consumed + 1 = 7 + LoginLength
    BY <1>1, <1>2
  <2> QED BY <1>1, <2>1, <2>2, <2>3, <2>4
<1>4. /\ script' = script /\ secured' = secured
      /\ script' \in Scripts /\ secured' \in BOOLEAN
      /\ arrived' \in 0..Len(Stream') /\ consumed' \in 0..arrived'
      /\ consumed' = 7 + LoginLength /\ LoginLength' = LoginLength /\ NameLength' = NameLength
  BY <1>1, <1>2, TakenType
<1> QED BY <1>1, <1>2, <1>3, <1>4 DEF TunnelInv, TunnelTypes, InvPlace, InvSecret

(* The address and the port are the last of the proxy's bytes.              *)
LEMMA AddressStep == ASSUME ScriptsTyped, TunnelInv, AddressRead PROVE TunnelInv'
<1>1. /\ phase = "address" /\ consumed = 6 + LoginLength + NameLength
      /\ address = Len(script.bound) /\ address \in Nat
      /\ Available(address + 2) /\ Took(address + 2) /\ phase' = "open"
      /\ address' = address /\ sent' = sent /\ (Shown' <=> Shown)
  BY DEF AddressRead, TunnelInv, TunnelTypes, InvPlace, Shown
<1>2. TunnelTypes /\ script \in Scripts /\ LoginLength \in Nat /\ NameLength \in Nat
  BY DEF TunnelInv, TunnelTypes, LoginLength, NameLength
<1>3. /\ script' = script /\ secured' = secured
      /\ script' \in Scripts /\ secured' \in BOOLEAN
      /\ arrived' \in 0..Len(Stream') /\ consumed' \in 0..arrived'
      /\ consumed' = consumed + (address + 2)
      /\ LoginLength' = LoginLength /\ NameLength' = NameLength
  <2>1. address + 2 \in Nat
    BY <1>1
  <2> QED BY <1>1, <1>2, <2>1, TakenType
<1>4. consumed' = 8 + LoginLength + NameLength + Len(script.bound)
  <2> DEFINE rest == Len(script.bound)
  <2>1. address = rest
    BY <1>1
  <2> HIDE DEF rest
  <2>2. consumed' = (6 + LoginLength + NameLength) + (address + 2)
    BY <1>1, <1>3
  <2>3. consumed' = 8 + LoginLength + NameLength + rest
    BY <1>1, <1>2, <2>1, <2>2
  <2> QED BY <2>3 DEF rest
<1> QED BY <1>1, <1>2, <1>3, <1>4 DEF TunnelInv, TunnelTypes, InvPlace, InvSecret

(* Every step keeps the invariant.                                          *)
LEMMA TunnelGoesOn ==
  ASSUME ScriptsTyped, AddressesAsTyped PROVE TunnelInv /\ [TunnelNext]_tunnelVars => TunnelInv'
<1> SUFFICES ASSUME TunnelInv, [TunnelNext]_tunnelVars PROVE TunnelInv'
  OBVIOUS
<1>1. ASSUME script' = script
      PROVE  Stream' = Stream /\ LoginLength' = LoginLength /\ NameLength' = NameLength
  BY <1>1 DEF Stream, LoginLength, NameLength
<1>2. ASSUME sent' = sent PROVE Shown' <=> Shown
  BY <1>2 DEF Shown
<1>3. CASE Offer
  <2>1. /\ TunnelTypes /\ Len(sent') = 1
        /\ sent'[1] \in {"offer password", "offer none"} /\ sent' \in Seq(Messages)
    <3>1. \E m \in {"offer password", "offer none"} : sent' = <<m>>
      BY <1>3 DEF Offer
    <3>2. PICK m \in {"offer password", "offer none"} : sent' = <<m>>
      BY <3>1
    <3>3. m \in Messages
      BY DEF Messages
    <3>4. <<m>> \in Seq(Messages) /\ Len(<<m>>) = 1 /\ <<m>>[1] = m
      BY <3>3, Single
    <3> QED BY <3>2, <3>4 DEF TunnelInv
  <2>2. ~Shown'
    <3>1. sent'[1] # "credentials"
      BY <2>1
    <3>2. Len(sent') = 1
      BY <2>1
    <3>3. \A i \in 1..1 : i = 1
      OBVIOUS
    <3> QED BY <3>1, <3>2, <3>3 DEF Shown
  <2> QED BY <1>1, <1>3, <2>1, <2>2 DEF Offer, TunnelInv, TunnelTypes, InvPlace, InvSecret
<1>4. CASE Arrive
  <2>1. Len(Stream) \in Nat
    BY StreamShape, LenProperties DEF TunnelInv, TunnelTypes
  <2> QED BY <1>1, <1>2, <1>4, <2>1 DEF Arrive, TunnelInv, TunnelTypes, InvPlace, InvSecret
<1>5. CASE Timeout
  BY <1>1, <1>2, <1>5 DEF Timeout, Fail, TunnelInv, TunnelTypes, InvPlace, InvSecret
<1>6. CASE UNCHANGED tunnelVars
  BY <1>1, <1>2, <1>6 DEF tunnelVars, TunnelInv, TunnelTypes, InvPlace, InvSecret
<1> QED
  BY <1>3, <1>4, <1>5, <1>6, MethodStep, LoginStep, ReplyStep, LengthStep, AddressStep DEF TunnelNext

-----------------------------------------------------------------------------
(* What the invariant says of an open tunnel.                               *)
LEMMA CleanByInvariant == ASSUME TunnelInv PROVE TunnelIsClean
<1>1. Shown <=> "credentials" \in ToSet(sent)
  BY DEF Shown, ToSet, TunnelInv, TunnelTypes
<1>2. ASSUME phase = "open" PROVE SubSeq(Stream, consumed + 1, Len(Stream)) = <<Database>>
  <2>1. /\ Stream \in Seq(Nat) /\ Len(Stream) \in Nat /\ Stream[Len(Stream)] = Database
        /\ Len(Stream) = 9 + LoginLength + NameLength + Len(script.bound)
    BY ScriptsAssumption, StreamShape, LenProperties DEF TunnelInv, TunnelTypes
  <2>2. LoginLength \in Nat /\ NameLength \in Nat /\ Len(script.bound) \in Nat
    BY ScriptsAssumption, LenProperties DEF ScriptsTyped, TunnelInv, TunnelTypes, LoginLength, NameLength
  <2> DEFINE rest == Len(script.bound)
  <2>3. consumed = 8 + LoginLength + NameLength + rest
    BY <1>2 DEF TunnelInv, InvPlace
  <2>4. Len(Stream) = 9 + LoginLength + NameLength + rest /\ rest \in Nat
    BY <2>1, <2>2
  <2> HIDE DEF rest
  <2>5. consumed + 1 = Len(Stream)
    BY <2>2, <2>3, <2>4
  <2>6. SubSeq(Stream, Len(Stream), Len(Stream)) = <<Database>>
    BY <2>1, LastByte DEF Database
  <2> QED BY <2>5, <2>6
<1> QED BY <1>1, <1>2 DEF TunnelIsClean, TunnelInv, InvPlace, InvSecret

(* A tunnel is opened only behind the last byte of the proxy's answers, by  *)
(* a proxy that accepted the credentials where some are configured, and the *)
(* credentials go out only when asked for: for every proxy whose addresses  *)
(* have the length their type says.                                         *)
THEOREM TunnelAlwaysClean == TunnelSpec => []TunnelIsClean
<1>1. TunnelInit => TunnelInv
  BY ScriptsAssumption, TunnelBegins
<1>2. TunnelInv /\ [TunnelNext]_tunnelVars => TunnelInv'
  BY ScriptsAssumption, TunnelGoesOn
<1> QED BY <1>1, <1>2, CleanByInvariant, PTL DEF TunnelSpec

-----------------------------------------------------------------------------
(* The three together, as MCClients runs them: a step of one client leaves  *)
(* the others where they are, at rest.                                      *)

AtRest == /\ NoConsole \/ client = "console"
          /\ NoDriver \/ client = "driver"
          /\ NoTunnel \/ client = "tunnel"

ClientsInv ==
  /\ client \in {"console", "driver", "tunnel"} /\ AtRest
  /\ client = "console" => NothingStale /\ InvEnded
  /\ client = "driver" => DriverInv
  /\ client = "tunnel" => TunnelInv

LEMMA ClientsBegin == Init => ClientsInv
<1>1. ConsoleInit => NothingStale /\ InvEnded
  <2>1. DOMAIN <<>> = {}
    OBVIOUS
  <2> QED BY <2>1 DEF ConsoleInit, NothingStale, InvEnded
<1> QED
  BY <1>1, DriverBegins, TunnelBegins, ScriptsAssumption DEF Init, ClientsInv, AtRest

LEMMA ClientsGoOn == ClientsInv /\ [Next]_vars => ClientsInv'
<1> SUFFICES ASSUME ClientsInv, [Next]_vars PROVE ClientsInv'
  OBVIOUS
<1>1. client' = client
  BY DEF Next, vars
<1>2. UNCHANGED <<loop>> => (NoConsole => NoConsole')
  BY DEF loop, console, NoConsole, Nothing
<1>3. UNCHANGED driver => (NoDriver => NoDriver')
  BY DEF driver, NoDriver
<1>4. UNCHANGED tunnelVars => (NoTunnel => NoTunnel')
  BY DEF tunnelVars, NoTunnel
<1>5. UNCHANGED vars => UNCHANGED <<loop, driver, tunnelVars, consoleVars, driverVars>>
  BY DEF vars, loop, driver, consoleVars, driverVars
<1>6. AtRest'
  BY <1>1, <1>2, <1>3, <1>4, <1>5 DEF ClientsInv, AtRest, Next
<1>7. ASSUME client = "console" PROVE NothingStale' /\ InvEnded'
  <2>1. [ConsoleNext]_consoleVars
    BY <1>5, <1>7 DEF Next
  <2>2. NothingStale /\ InvEnded
    BY <1>7 DEF ClientsInv
  <2>3. InvEnded'
    <3>1. UNCHANGED consoleVars => InvEnded'
      BY <2>2 DEF InvEnded, consoleVars, session
    <3> QED BY <2>1, <2>2, <3>1, StepEnds
  <2> QED BY <2>1, <2>2, <2>3, StepKeepsFresh
<1>8. ASSUME client = "driver" PROVE DriverInv'
  <2>1. [DriverNext]_driverVars
    BY <1>5, <1>8 DEF Next
  <2> QED BY <1>8, <2>1, DriverGoesOn DEF ClientsInv
<1>9. ASSUME client = "tunnel" PROVE TunnelInv'
  <2>1. [TunnelNext]_tunnelVars
    BY <1>5, <1>9 DEF Next
  <2> QED BY <1>9, <2>1, TunnelGoesOn, ScriptsAssumption DEF ClientsInv
<1>10. client \in {"console", "driver", "tunnel"}
  BY DEF ClientsInv
<1> QED BY <1>1, <1>6, <1>7, <1>8, <1>9, <1>10 DEF ClientsInv

(* Whichever client runs, it uses nothing compiled against an older         *)
(* generation of the metadata.                                              *)
THEOREM ClientsAreFresh == Spec => []NothingStale
<1>1. ClientsInv => NothingStale
  <2>1. NoConsole => NothingStale
    <3>1. DOMAIN <<>> = {}
      OBVIOUS
    <3> QED BY <3>1 DEF NoConsole, NothingStale
  <2> QED BY <2>1 DEF ClientsInv, AtRest
<1> QED BY <1>1, ClientsBegin, ClientsGoOn, PTL DEF Spec

(* Whichever client runs, an open tunnel is a clean one.                    *)
THEOREM ClientsTunnelsAreClean == Spec => []TunnelIsClean
<1>1. ClientsInv => TunnelIsClean
  <2>1. NoTunnel => TunnelIsClean
    <3>1. ToSet(<<>>) = {}
      BY DEF ToSet
    <3> QED BY <3>1 DEF NoTunnel, TunnelIsClean
  <2> QED BY <2>1, CleanByInvariant DEF ClientsInv, AtRest
<1> QED BY <1>1, ClientsBegin, ClientsGoOn, PTL DEF Spec

(* While the console uses the session, a session that dies under a failing  *)
(* call ends it.                                                            *)
THEOREM ClientsDeathEnds == Spec => DeathEndsConsole
<1>1. ClientsInv /\ [Next]_vars => [client = "console" => DeathEnds]_vars
  BY StepEnds DEF ClientsInv, Next
<1> QED BY <1>1, ClientsBegin, ClientsGoOn, PTL DEF Spec, DeathEndsConsole

(* Whichever client runs, no thread that drives a runtime blocks on the     *)
(* driver's, and a refusal leaves the session alone.                        *)
THEOREM ClientsRespectRuntime == Spec => RuntimeRespected
<1>1. ClientsInv /\ [Next]_vars => [Respects]_driverVars
  <2> SUFFICES ASSUME ClientsInv, [Next]_vars PROVE [Respects]_driverVars
    OBVIOUS
  <2>1. CASE client = "driver" /\ DriverNext
    BY <2>1, StepRespects DEF ClientsInv
  <2>2. CASE UNCHANGED driver
    BY <2>2 DEF driver, Respects
  <2>3. CASE UNCHANGED vars
    BY <2>3 DEF vars, driver, driverVars
  <2> QED BY <2>1, <2>2, <2>3 DEF Next, ClientsInv
<1> QED BY <1>1, ClientsBegin, ClientsGoOn, PTL DEF Spec, RuntimeRespected, Respects
=============================================================================
