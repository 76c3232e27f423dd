----------------------------- MODULE StartupProofs -----------------------------
(***************************************************************************)
(* What the command line comes to, and what the start and the end of the    *)
(* server leave open: proofs, for any limit on descriptors, any command      *)
(* line and any number of addresses.                                         *)
(***************************************************************************)
EXTENDS Startup, CountingLemmas, SequenceTheorems

(* The stages, by what has been assigned. *)
Before == {"parse", "resolve", "listen"}
OneFd == {"nonblock", "poller"}
TwoFds == {"register", "events", "loop"}

Connections == { f \in DOMAIN open : open[f] = "connection" }

(* What is open besides connections at each stage.  socket_ and poller_ are  *)
(* only ever read as far as they are assigned, but for poller_ where the      *)
(* socket cannot be made non-blocking.                                       *)
OpenInv ==
  /\ phase \in Before \cup OneFd \cup TwoFds \cup {"returned", "exited", "killed"}
  /\ DOMAIN open \subseteq Fd /\ held \subseteq Fd
  /\ phase \in Before => socket_ = Unset /\ poller_ = Unset
  /\ phase = "parse" => \A f \in DOMAIN open : open[f] \in {"inherited", "log"}
  /\ phase \in {"resolve", "listen"} \cup OneFd \cup TwoFds =>
       /\ held \subseteq DOMAIN open
       /\ \A f \in held : open[f] \in {"inherited", "log"}
  /\ phase \in {"resolve", "listen"} => DOMAIN open = held
  /\ phase \in OneFd \cup TwoFds => socket_ \in DOMAIN open \ held /\ open[socket_] = "listener"
  /\ phase \in OneFd => DOMAIN open = held \cup {socket_} /\ poller_ = Unset
  /\ phase \in TwoFds => /\ poller_ \in DOMAIN open \ held /\ open[poller_] = "poller"
                         /\ DOMAIN open = held \cup {socket_, poller_} \cup Connections

StartInv == OpenInv /\ CleanExit

LEMMA Numbers == Fd \subseteq Nat /\ None \notin Fd /\ Unset \notin Fd /\ None # Unset
BY FdAssumption DEF Fd, None, Unset

LEMMA WithoutHas ==
  ASSUME NEW gone
  PROVE  /\ DOMAIN Without(gone) = DOMAIN open \ gone
         /\ \A g \in DOMAIN open \ gone : Without(gone)[g] = open[g]
BY DEF Without, Restrict

LEMMA AtMostOne ==
  ASSUME NEW S, NEW x, S \subseteq {x} PROVE Cardinality(S) <= 1
<1>1. S = {} \/ S = {x}
  OBVIOUS
<1>2. Cardinality({}) = 0 /\ Cardinality({x}) = 1
  BY FS_EmptySet, FS_Singleton
<1> QED BY <1>1, <1>2

(* Run returns: of what it opened only a listening socket 0 stays, and of     *)
(* what was there only the descriptor that is taken for the poller goes.      *)
LEMMA ReturnsClean ==
  ASSUME StartInv, phase \in OneFd \cup TwoFds, NEW poller, Return(poller),
         \/ poller = None /\ phase \in OneFd
         \/ poller = poller_ /\ phase \in TwoFds
         \/ phase \in OneFd /\ poller \in Fd \cup {None} /\ poller_' = Unset
  PROVE  StartInv'
<1>1. /\ DOMAIN open' = DOMAIN open \ (Connections \cup ({poller, socket_} \ {0}))
      /\ socket_' = 0 /\ phase' = "returned" /\ held' = held
  BY WithoutHas DEF Return, Cleaned, Connections
<1>2. /\ held \subseteq DOMAIN open /\ socket_ \notin held /\ held \subseteq Fd /\ DOMAIN open \subseteq Fd
      /\ Connections \cap held = {}
  BY DEF StartInv, OpenInv, Connections
<1>3. DOMAIN open' \subseteq held \cup {0}
  <2>1. CASE phase \in OneFd
    BY <1>1, <2>1 DEF StartInv, OpenInv
  <2>2. CASE phase \in TwoFds
    <3>1. phase \notin OneFd
      BY <2>2 DEF OneFd, TwoFds
    <3> QED BY <1>1, <2>2, <3>1 DEF StartInv, OpenInv
  <2> QED BY <2>1, <2>2
<1>4. held \ DOMAIN open' \subseteq {poller}
  BY <1>1, <1>2
<1>5. held \subseteq DOMAIN open' \/ (poller_' = Unset /\ socket_' # None)
  <2>1. CASE poller_' = Unset
    BY <1>1, <2>1 DEF None
  <2>2. CASE poller = None
    BY <1>1, <1>2, <2>2, Numbers
  <2>3. CASE poller = poller_ /\ phase \in TwoFds
    BY <1>1, <1>2, <2>3 DEF StartInv, OpenInv
  <2> QED BY <2>1, <2>2, <2>3
<1>6. Cardinality(held \ DOMAIN open') <= 1
  BY <1>4, AtMostOne
<1>7. CleanExit'
  BY <1>1, <1>3, <1>5, <1>6 DEF CleanExit
<1>8. OpenInv'
  BY <1>1, <1>2 DEF OpenInv, Before, OneFd, TwoFds
<1> QED BY <1>7, <1>8 DEF StartInv

(* A step that stays outside Run's return. *)
LEMMA StillRunning ==
  ASSUME OpenInv', phase' # "returned" PROVE StartInv'
BY DEF StartInv, CleanExit

LEMMA InitOpen == Init => StartInv
<1>1. ASSUME Init PROVE OpenInv
  <2>1. DOMAIN open \in { {0, 1, 2}, {1, 2} } /\ \A f \in DOMAIN open : open[f] = "inherited"
    BY <1>1 DEF Init
  <2>2. DOMAIN open \subseteq Fd
    BY <2>1, FdAssumption DEF Fd
  <2> QED BY <1>1, <2>1, <2>2 DEF Init, OpenInv, Before, OneFd, TwoFds
<1>2. Init => CleanExit
  BY DEF Init, CleanExit
<1> QED BY <1>1, <1>2 DEF StartInv

LEMMA ParseOpen == ASSUME StartInv, Parse PROVE StartInv'
<1>1. /\ phase = "parse" /\ phase' \in {"parse", "exited"}
      /\ UNCHANGED <<open, held, socket_, poller_>>
  BY DEF Parse, OptionWithValue, OptionVerbose, OptionHelp, OptionUnknown, Parsing, run
<1>2. OpenInv'
  BY <1>1 DEF StartInv, OpenInv, Before, OneFd, TwoFds
<1> QED BY <1>1, <1>2, StillRunning

LEMMA ConstructOpen == ASSUME StartInv, Construct PROVE StartInv'
<1>1. ASSUME NEW after, StartRun(after), DOMAIN after \subseteq Fd,
             \A f \in DOMAIN after : after[f] \in {"inherited", "log"}
      PROVE  StartInv'
  <2>1. OpenInv'
    BY <1>1 DEF StartRun, StartInv, OpenInv, Before, OneFd, TwoFds
  <2> QED BY <1>1, <2>1, StillRunning DEF StartRun
<1>2. phase = "parse" /\ DOMAIN open \subseteq Fd /\ \A f \in DOMAIN open : open[f] \in {"inherited", "log"}
  BY DEF Construct, StartRun, StartInv, OpenInv
<1>3. CASE StartRun(open)
  BY <1>1, <1>2, <1>3
<1>4. ASSUME NEW f \in Fd, StartRun(Opened(f, "log")) PROVE StartInv'
  <2> DEFINE after == Opened(f, "log")
  <2>1. /\ DOMAIN after = DOMAIN open \cup {f} /\ after[f] = "log"
        /\ \A g \in DOMAIN open \ {f} : after[g] = open[g]
    BY DEF Opened
  <2>2. DOMAIN after \subseteq Fd /\ \A g \in DOMAIN after : after[g] \in {"inherited", "log"}
    <3> HIDE DEF after
    <3> QED BY <1>2, <1>4, <2>1
  <2> QED BY <1>1, <1>4, <2>2
<1> QED BY <1>3, <1>4 DEF Construct

(* The listening socket is looked for. *)
LEMMA ListenOpen ==
  ASSUME StartInv, Resolve \/ CandidateFails \/ CandidateListens \/ NotListening PROVE StartInv'
<1>1. CASE Resolve \/ CandidateFails
  <2>1. /\ phase \in {"resolve", "listen"} /\ phase' = "listen"
        /\ UNCHANGED <<open, held, socket_, poller_>>
    BY <1>1 DEF Resolve, CandidateFails
  <2>2. OpenInv'
    BY <2>1 DEF StartInv, OpenInv, Before, OneFd, TwoFds
  <2> QED BY <2>1, <2>2, StillRunning
<1>2. CASE CandidateListens
  <2>1. /\ phase = "listen" /\ phase' = "nonblock"
        /\ UNCHANGED <<held, poller_>>
    BY <1>2 DEF CandidateListens
  <2>2. PICK f \in Fd \ DOMAIN open : open' = Opened(f, "listener") /\ socket_' = f
    BY <1>2 DEF CandidateListens, Lowest
  <2>3. /\ DOMAIN open' = DOMAIN open \cup {f} /\ open'[f] = "listener"
        /\ \A g \in DOMAIN open : open'[g] = open[g]
    BY <2>2 DEF Opened
  <2>4. OpenInv'
    BY <2>1, <2>2, <2>3 DEF StartInv, OpenInv, Before, OneFd, TwoFds
  <2> QED BY <2>1, <2>4, StillRunning
<1>3. CASE NotListening
  <2>1. /\ phase = "listen" /\ phase' = "returned" /\ socket_' = None
        /\ UNCHANGED <<open, held, poller_>>
    BY <1>3 DEF NotListening
  <2>2. OpenInv'
    BY <2>1 DEF StartInv, OpenInv, Before, OneFd, TwoFds
  <2>3. DOMAIN open = held
    BY <2>1 DEF StartInv, OpenInv
  <2>4. Cardinality(held \ DOMAIN open) <= 1
    BY <2>3, AtMostOne
  <2> QED BY <2>1, <2>2, <2>3, <2>4 DEF StartInv, CleanExit
<1> QED BY <1>1, <1>2, <1>3

LEMMA SetUpOpen == ASSUME StartInv, SetUp PROVE StartInv'
<1>1. CASE NonBlockingFails
  <2>1. phase \in OneFd /\ poller_' = Unset
    BY <1>1 DEF NonBlockingFails, StartInv, OpenInv, OneFd
  <2> QED BY <1>1, <2>1, ReturnsClean DEF NonBlockingFails
<1>2. CASE PollerFails
  BY <1>2, ReturnsClean DEF PollerFails, OneFd
<1>3. CASE RegisterFails
  BY <1>3, ReturnsClean DEF RegisterFails, CleanUp, TwoFds
<1>4. CASE NonBlocking \/ Registered
  <2>1. /\ \/ phase = "nonblock" /\ phase' = "poller"
           \/ phase = "register" /\ phase' = "events"
        /\ UNCHANGED <<open, held, socket_, poller_>>
    BY <1>4 DEF NonBlocking, Registered, Goto, run
  <2>2. OpenInv'
    BY <2>1 DEF StartInv, OpenInv, Before, OneFd, TwoFds, Connections
  <2> QED BY <2>1, <2>2, StillRunning
<1>5. CASE PollerCreated
  <2>1. /\ phase = "poller" /\ phase' = "register" /\ UNCHANGED <<held, socket_>>
    BY <1>5 DEF PollerCreated
  <2>2. PICK f \in Fd \ DOMAIN open : open' = Opened(f, "poller") /\ poller_' = f
    BY <1>5 DEF PollerCreated, Lowest
  <2>3. /\ DOMAIN open' = DOMAIN open \cup {f} /\ open'[f] = "poller"
        /\ \A g \in DOMAIN open : open'[g] = open[g]
    BY <2>2 DEF Opened
  <2>4. DOMAIN open' = held \cup {socket_, f} \cup Connections'
    BY <2>1, <2>2, <2>3 DEF StartInv, OpenInv, OneFd, TwoFds, Connections
  <2>5. OpenInv'
    BY <2>1, <2>2, <2>3, <2>4 DEF StartInv, OpenInv, Before, OneFd, TwoFds
  <2> QED BY <2>1, <2>5, StillRunning
<1> QED BY <1>1, <1>2, <1>3, <1>4, <1>5 DEF SetUp

LEMMA LoopOpen ==
  ASSUME StartInv, Loops \/ EventsOverflow \/ WaitInvalid \/ MainReturns \/ Clients
  PROVE  StartInv'
<1>1. CASE Loops
  <2>1. phase = "events" /\ phase' = "loop" /\ UNCHANGED <<open, held, socket_, poller_>>
    BY <1>1 DEF Loops, Goto, run
  <2>2. OpenInv'
    BY <2>1 DEF StartInv, OpenInv, Before, OneFd, TwoFds, Connections
  <2> QED BY <2>1, <2>2, StillRunning
<1>2. CASE WaitInvalid \/ LoopEnds
  BY <1>2, ReturnsClean DEF WaitInvalid, LoopEnds, CleanUp, TwoFds
<1>3. CASE EventsOverflow \/ LoopKilled \/ MainReturns
  <2>1. /\ phase' \in {"killed", "exited"} /\ DOMAIN open' \subseteq DOMAIN open /\ held' = held
    BY <1>3, WithoutHas DEF EventsOverflow, LoopKilled, MainReturns, run
  <2>2. OpenInv'
    BY <2>1 DEF StartInv, OpenInv, Before, OneFd, TwoFds
  <2> QED BY <2>1, <2>2, StillRunning
<1>4. CASE ConnectionOpens
  <2>1. phase = "loop" /\ UNCHANGED <<phase, held, socket_, poller_>>
    BY <1>4 DEF ConnectionOpens, run
  <2>2. PICK f \in Fd \ DOMAIN open : open' = Opened(f, "connection")
    BY <1>4 DEF ConnectionOpens, Lowest
  <2>3. /\ DOMAIN open' = DOMAIN open \cup {f} /\ open'[f] = "connection"
        /\ \A g \in DOMAIN open : open'[g] = open[g]
    BY <2>2 DEF Opened
  <2>4. DOMAIN open' = held \cup {socket_, poller_} \cup Connections'
    BY <2>1, <2>2, <2>3 DEF StartInv, OpenInv, TwoFds, Connections
  <2>5. OpenInv'
    BY <2>1, <2>2, <2>3, <2>4 DEF StartInv, OpenInv, Before, OneFd, TwoFds
  <2> QED BY <2>1, <2>5, StillRunning
<1>5. CASE ConnectionCloses
  <2>1. phase = "loop" /\ UNCHANGED <<phase, held, socket_, poller_>>
    BY <1>5 DEF ConnectionCloses, run
  <2>2. PICK f \in DOMAIN open : open[f] = "connection" /\ open' = Without({f})
    BY <1>5 DEF ConnectionCloses
  <2>3. DOMAIN open' = DOMAIN open \ {f} /\ \A g \in DOMAIN open \ {f} : open'[g] = open[g]
    BY <2>2, WithoutHas
  <2>4. DOMAIN open' = held \cup {socket_, poller_} \cup Connections'
    BY <2>1, <2>2, <2>3 DEF StartInv, OpenInv, TwoFds, Connections
  <2>5. OpenInv'
    BY <2>1, <2>2, <2>3, <2>4 DEF StartInv, OpenInv, Before, OneFd, TwoFds
  <2> QED BY <2>1, <2>5, StillRunning
<1> QED BY <1>1, <1>2, <1>3, <1>4, <1>5 DEF Clients

LEMMA StartStep == StartInv /\ [Next]_vars => StartInv'
<1> SUFFICES ASSUME StartInv, [Next]_vars PROVE StartInv'
  OBVIOUS
<1>1. CASE UNCHANGED vars
  <2>1. UNCHANGED <<phase, open, held, socket_, poller_>>
    BY <1>1 DEF vars, run
  <2> QED BY <2>1 DEF StartInv, OpenInv, CleanExit, Connections
<1> QED BY <1>1, ParseOpen, ConstructOpen, ListenOpen, SetUpOpen, LoopOpen DEF Next, Program

(* The inductive invariant holds in every reachable state.                 *)
THEOREM StartInvariance == Spec => []StartInv
BY InitOpen, StartStep, PTL DEF Spec

(* Run leaves nothing behind (proxy_server.cc:263-286) but a listening socket *)
(* that is descriptor 0, and closes nothing that is not its own but where      *)
(* poller_ is read before it is assigned; after any failure of the set-up.     *)
THEOREM AlwaysCleanExit == Spec => []CleanExit
<1>1. StartInv => CleanExit
  BY DEF StartInv
<1> QED BY <1>1, StartInvariance, PTL

(* The loop starts with one listening socket and one poller, and keeps them:  *)
(* whichever addresses were tried before (network_linux.cc:50-88).            *)
THEOREM LoopAlwaysHandedOver == Spec => []LoopHandedOver
<1>1. ASSUME StartInv, phase = "loop"
      PROVE  /\ { f \in DOMAIN open : open[f] = "listener" } = {socket_}
             /\ { f \in DOMAIN open : open[f] = "poller" } = {poller_}
             /\ { f \in DOMAIN open : open[f] \in {"log", "inherited"} } = held
  <2>1. /\ DOMAIN open = held \cup {socket_, poller_} \cup Connections
        /\ open[socket_] = "listener" /\ open[poller_] = "poller"
        /\ \A f \in held : open[f] \in {"inherited", "log"}
    BY <1>1 DEF StartInv, OpenInv, TwoFds
  <2> QED BY <2>1 DEF Connections
<1>2. StartInv => LoopHandedOver
  BY <1>1 DEF LoopHandedOver
<1> QED BY <1>2, StartInvariance, PTL

-----------------------------------------------------------------------------
(* Types. *)

ConfigType == DOMAIN config = Valued \cup {"--verbose"}

TypedInv == StartInv /\ TypeOK /\ ConfigType

LEMMA ValuesTyped == \A w : atoi(w) \in Int
BY WordAssumption DEF atoi

LEMMA InitTyped == Init => TypeOK /\ ConfigType
<1> SUFFICES ASSUME Init PROVE TypeOK /\ ConfigType
  OBVIOUS
<1>1. PICK n \in 0..MaxWords : argv \in [1..n -> Words]
  BY DEF Init
<1>2. argv \in Seq(Words) /\ next \in 1..(Len(argv) + 1)
  <2>1. n \in Nat
    BY BoundAssumption
  <2>2. argv \in Seq(Words)
    BY <1>1, <2>1, SeqDef
  <2> QED BY <1>1, <2>1, <2>2 DEF Init
<1>3. /\ DOMAIN config = Valued \cup {"--verbose"}
      /\ \A o \in {"--port", "--backlog", "--max-events"} : config[o] \in Int
  <2>1. /\ DOMAIN Default = Valued \cup {"--verbose"}
        /\ Default["--port"] = 8080 /\ Default["--backlog"] = 128 /\ Default["--max-events"] = 16
    BY DEF Default, Valued
  <2> QED BY <2>1 DEF Init
<1>4. DOMAIN open \subseteq Fd /\ \A f \in DOMAIN open : open[f] \in Holder
  BY FdAssumption DEF Init, Fd, Holder
<1> QED BY <1>2, <1>3, <1>4, BoundAssumption DEF Init, TypeOK, ConfigType

LEMMA ParseTyped == ASSUME TypedInv, Parse PROVE TypeOK' /\ ConfigType'
<1>1. /\ argv' = argv /\ next \in 1..Len(argv) /\ Len(argv) \in Nat
      /\ next' \in 1..(Len(argv) + 1)
  BY DEF Parse, OptionWithValue, OptionVerbose, OptionHelp, OptionUnknown, Parsing, parser,
         TypedInv, TypeOK
<1>2. phase' \in {"parse", "exited"} /\ UNCHANGED <<open, held, candidates, socket_, poller_>>
  BY DEF Parse, OptionWithValue, OptionVerbose, OptionHelp, OptionUnknown, Parsing, run
<1>3. \/ config' = config
      \/ config' = [config EXCEPT !["--verbose"] = TRUE]
      \/ \E o \in Valued : \E w : config' = [config EXCEPT ![o] = Value(o, w)]
  BY DEF Parse, OptionWithValue, OptionVerbose, OptionHelp, OptionUnknown, parser
<1>4. ConfigType'
  BY <1>3 DEF TypedInv, ConfigType
<1>5. \A o \in {"--port", "--backlog", "--max-events"} : config'[o] \in Int
  BY <1>3, ValuesTyped DEF TypedInv, TypeOK, ConfigType, Valued, Value
<1> QED BY <1>1, <1>2, <1>4, <1>5 DEF TypedInv, TypeOK

(* The steps after the command line; Run's own are about descriptors alone. *)
LEMMA RunTyped ==
  ASSUME TypedInv, [Next]_vars, ~Parse PROVE TypeOK' /\ ConfigType'
<1>1. CASE UNCHANGED vars
  BY <1>1 DEF vars, parser, run, TypedInv, TypeOK, ConfigType
<1>2. CASE Next
  <2> USE <1>2 DEF Next, Program, Clients, SetUp
  <2>1. UNCHANGED parser
    BY DEF Construct, StartRun, Resolve, CandidateFails, CandidateListens, NotListening,
           NonBlockingFails, Return, NonBlocking, Goto, PollerFails, PollerCreated, RegisterFails,
           CleanUp, Registered, Loops, EventsOverflow, WaitInvalid, MainReturns, ConnectionOpens,
           ConnectionCloses, LoopEnds, LoopKilled
  <2>2. candidates' \in 0..MaxCandidates
    BY BoundAssumption
       DEF Construct, StartRun, Resolve, CandidateFails, CandidateListens, NotListening,
           NonBlockingFails, Return, NonBlocking, Goto, PollerFails, PollerCreated, RegisterFails,
           CleanUp, Registered, Loops, EventsOverflow, WaitInvalid, MainReturns, ConnectionOpens,
           ConnectionCloses, LoopEnds, LoopKilled, run, TypedInv, TypeOK
  <2>3. socket_' \in Fd \cup {None, Unset} /\ poller_' \in Fd \cup {None, Unset}
    BY FdAssumption
       DEF Construct, StartRun, Resolve, CandidateFails, CandidateListens, NotListening,
           NonBlockingFails, Return, NonBlocking, Goto, PollerFails, PollerCreated, RegisterFails,
           CleanUp, Registered, Loops, EventsOverflow, WaitInvalid, MainReturns, ConnectionOpens,
           ConnectionCloses, LoopEnds, LoopKilled, run, TypedInv, TypeOK, Fd
  <2>4. \/ open' = open
        \/ \E gone : open' = Without(gone)
        \/ \E f \in Fd : \E what \in Holder : open' = Opened(f, what)
    BY DEF Construct, StartRun, Resolve, CandidateFails, CandidateListens, NotListening,
           NonBlockingFails, Return, Cleaned, NonBlocking, Goto, PollerFails, PollerCreated,
           RegisterFails, CleanUp, Registered, Loops, EventsOverflow, WaitInvalid, MainReturns,
           ConnectionOpens, ConnectionCloses, LoopEnds, LoopKilled, run, Holder
  <2>5. \A f \in DOMAIN open' : open'[f] \in Holder
    <3>1. \A f \in DOMAIN open : open[f] \in Holder
      BY DEF TypedInv, TypeOK
    <3>2. ASSUME NEW gone, open' = Without(gone) PROVE \A f \in DOMAIN open' : open'[f] \in Holder
      BY <3>1, <3>2, WithoutHas
    <3>3. ASSUME NEW f \in Fd, NEW what \in Holder, open' = Opened(f, what)
          PROVE  \A g \in DOMAIN open' : open'[g] \in Holder
      BY <3>1, <3>3 DEF Opened
    <3> QED BY <2>4, <3>1, <3>2, <3>3
  <2>6. OpenInv'
    BY StartStep DEF TypedInv, StartInv
  <2>7. phase' \in Before \cup OneFd \cup TwoFds \cup {"returned", "exited", "killed"}
        /\ DOMAIN open' \subseteq Fd /\ held' \subseteq Fd
    BY <2>6 DEF OpenInv
  <2> QED BY <2>1, <2>2, <2>3, <2>5, <2>7
          DEF parser, TypedInv, TypeOK, ConfigType, Before, OneFd, TwoFds
<1> QED BY <1>1, <1>2

(* Every variable has its type in every reachable state: what socket_ and     *)
(* poller_ hold is a descriptor, an error or unassigned, "next" never runs     *)
(* past the command line by more than one (config.cc:11-28).                   *)
THEOREM StartTypeCorrect == Spec => []TypeOK
<1>1. Init => TypedInv
  BY InitOpen, InitTyped DEF TypedInv
<1>2. TypedInv /\ [Next]_vars => TypedInv'
  BY StartStep, ParseTyped, RunTyped DEF TypedInv
<1>3. TypedInv => TypeOK
  BY DEF TypedInv
<1> QED BY <1>1, <1>2, <1>3, PTL DEF Spec

-----------------------------------------------------------------------------
(* The command line. *)

(* What makes the word at k an option, of the words before it. *)
Leads(P, k) == \/ k = 1
               \/ k - 1 \in P /\ ~TakesValue(k - 1)
               \/ k - 2 \in P /\ TakesValue(k - 2)

(* P holds the options among the first n words. *)
PositionsUpTo(n, P) == P \subseteq 1..n /\ \A k \in 1..n : k \in P <=> Leads(P, k)

LEMMA OneWordMore ==
  ASSUME NEW n \in Nat, NEW P, PositionsUpTo(n, P)
  PROVE  \E Q : PositionsUpTo(n + 1, Q)
<1> DEFINE Q == { k \in 1..(n + 1) : k \in P \/ (k = n + 1 /\ Leads(P, n + 1)) }
<1>1. \A k \in 1..n : k \in Q <=> k \in P
  OBVIOUS
<1>2. \A k \in 1..(n + 1) : Leads(Q, k) <=> Leads(P, k)
  <2> TAKE k \in 1..(n + 1)
  <2>1. k - 1 \in Q <=> k - 1 \in P
    BY DEF PositionsUpTo
  <2>2. k - 2 \in Q <=> k - 2 \in P
    BY DEF PositionsUpTo
  <2> HIDE DEF Q
  <2> QED BY <2>1, <2>2 DEF Leads
<1>3. \A k \in 1..n : k \in P <=> Leads(P, k)
  BY DEF PositionsUpTo
<1>4. n + 1 \in Q <=> Leads(P, n + 1)
  BY DEF PositionsUpTo
<1>5. Q \subseteq 1..(n + 1)
  OBVIOUS
<1> HIDE DEF Q
<1>6. \A k \in 1..(n + 1) : k \in Q <=> Leads(Q, k)
  <2> TAKE k \in 1..(n + 1)
  <2>1. k \in 1..n \/ k = n + 1
    OBVIOUS
  <2> QED BY <1>1, <1>2, <1>3, <1>4, <2>1
<1> QED BY <1>5, <1>6 DEF PositionsUpTo

(* There is one set of options, word by word. *)
LEMMA Positions ==
  ASSUME argv \in Seq(Words) PROVE PositionsUpTo(Len(argv), OptionPositions)
<1> DEFINE N == Len(argv)
           Unread == { n \in 0..N : ~ \E P : PositionsUpTo(n, P) }
<1>1. N \in Nat
  OBVIOUS
<1>2. \E P : PositionsUpTo(0, P)
  <2>1. PositionsUpTo(0, {})
    BY DEF PositionsUpTo
  <2> QED BY <2>1
<1>3. \A n \in Nat : (\E P : PositionsUpTo(n, P)) => (\E P : PositionsUpTo(n + 1, P))
  BY OneWordMore
<1>4. Unread = {}
  <2> SUFFICES ASSUME Unread # {} PROVE FALSE
    OBVIOUS
  <2> HIDE DEF N
  <2>1. Unread \subseteq Nat
    BY <1>1
  <2> DEFINE U == Unread
  <2>2. U \subseteq Nat /\ U # {}
    BY <2>1
  <2> HIDE DEF U
  <2>3. PICK m \in U : \A k \in U : m <= k
    BY <2>2, LeastNatural
  <2>4. m \in 0..N /\ ~ (\E P : PositionsUpTo(m, P))
    BY <2>3 DEF U
  <2>5. m # 0
    BY <1>2, <2>4
  <2>6. m - 1 \in 0..N /\ m - 1 \in Nat /\ (m - 1) + 1 = m
    BY <1>1, <2>4, <2>5
  <2>7. m - 1 \notin U
    BY <2>1, <2>3, <2>6 DEF U
  <2>8. \E P : PositionsUpTo(m - 1, P)
    BY <2>6, <2>7 DEF U
  <2>9. \E P : PositionsUpTo((m - 1) + 1, P)
    BY <1>3, <2>6, <2>8
  <2> QED BY <2>4, <2>6, <2>9
<1>5. PICK P : PositionsUpTo(N, P)
  <2> HIDE DEF N
  <2>1. N \in 0..N
    BY <1>1
  <2> QED BY <1>4, <2>1
<1>6. P \in SUBSET (1..N) /\ \A k \in 1..N : k \in P <=> Leads(P, k)
  BY <1>5 DEF PositionsUpTo
<1>7. OptionPositions = CHOOSE Q \in SUBSET (1..N) : \A k \in 1..N : k \in Q <=> Leads(Q, k)
  BY DEF OptionPositions, Leads
<1> HIDE DEF N
<1>8. /\ OptionPositions \in SUBSET (1..N)
      /\ \A k \in 1..N : k \in OptionPositions <=> Leads(OptionPositions, k)
  BY <1>6, <1>7
<1> QED BY <1>8 DEF PositionsUpTo, N

(* How far ParseConfig has come: the word at `next' is an option, unless it   *)
(* is past the last one, and the options before it are in `config'.           *)
Given(o) == { k \in OptionPositions : k < next /\ argv[k] = o /\ TakesValue(k) }

Reading ==
  /\ next \in 1..Len(argv) => /\ next \in OptionPositions
                              /\ next - 1 \in OptionPositions => ~TakesValue(next - 1)
  /\ \A k \in OptionPositions : k < next => argv[k] # "--help"
  /\ \A o \in Valued :
       config[o] = IF Given(o) = {} THEN Default[o] ELSE Value(o, argv[Max(Given(o)) + 1])

ReadInv ==
  /\ phase # "exited" => Reading
  /\ phase \notin {"parse", "exited"} => next = Len(argv) + 1

LEMMA InitRead == ASSUME Init, TypeOK PROVE ReadInv
<1>1. PositionsUpTo(Len(argv), OptionPositions)
  BY Positions DEF TypeOK
<1>2. Len(argv) \in Nat /\ next = 1 /\ phase = "parse" /\ config = Default
  BY DEF Init, TypeOK
<1>3. 1 \in 1..Len(argv) => 1 \in OptionPositions
  BY <1>1 DEF PositionsUpTo, Leads
<1>4. \A k \in OptionPositions : k \in 1..Len(argv) /\ ~ (k < next)
  BY <1>1, <1>2 DEF PositionsUpTo
<1>5. \A o : Given(o) = {}
  BY <1>4 DEF Given
<1>6. next - 1 \notin OptionPositions
  BY <1>2, <1>4
<1> QED BY <1>2, <1>3, <1>4, <1>5, <1>6 DEF ReadInv, Reading

(* The option at `next' is read, with its value if it has one, and the loop    *)
(* is at the next option.                                                      *)
LEMMA OneOptionRead ==
  ASSUME TypeOK, ConfigType, Reading, Parsing, argv' = argv, argv[next] # "--help",
         next' = IF TakesValue(next) THEN next + 2 ELSE next + 1,
         \A o \in Valued : config'[o] = IF TakesValue(next) /\ argv[next] = o
                                       THEN Value(o, argv[next + 1]) ELSE config[o]
  PROVE  Reading'
<1> DEFINE P == OptionPositions
           n == next
           L == Len(argv)
<1>1. OptionPositions' = P /\ \A k : TakesValue(k)' = TakesValue(k)
  BY DEF OptionPositions, TakesValue
<1>2. P \subseteq 1..L /\ \A k \in 1..L : k \in P <=> Leads(P, k)
  BY Positions DEF TypeOK, PositionsUpTo
<1>3. L \in Nat /\ n \in 1..L
  BY DEF TypeOK, Parsing
<1>4. n \in P /\ (n - 1 \in P => ~TakesValue(n - 1))
  BY <1>3 DEF Reading
<1>5. TakesValue(n) => n + 1 \in 1..L /\ n + 1 \notin P
  <2> SUFFICES ASSUME TakesValue(n) PROVE n + 1 \in 1..L /\ n + 1 \notin P
    OBVIOUS
  <2>1. n + 1 \in 1..L
    BY <1>3 DEF TakesValue
  <2>2. ~Leads(P, n + 1)
    <3>1. (n + 1) - 1 = n /\ (n + 1) - 2 = n - 1 /\ n + 1 # 1
      BY <1>3
    <3> QED BY <1>4, <3>1 DEF Leads
  <2> QED BY <1>2, <2>1, <2>2
<1>6. next' \in 1..L => /\ next' \in P
                        /\ next' - 1 \in P => ~TakesValue(next' - 1)
  <2>1. CASE TakesValue(n)
    <3>1. next' = n + 2 /\ next' - 2 = n /\ next' - 1 = n + 1
      BY <1>3, <2>1
    <3>2. Leads(P, next')
      BY <1>4, <2>1, <3>1 DEF Leads
    <3> QED BY <1>2, <1>5, <2>1, <3>1, <3>2
  <2>2. CASE ~TakesValue(n)
    <3>1. next' = n + 1 /\ next' - 1 = n
      BY <1>3, <2>2
    <3>2. Leads(P, next')
      BY <1>4, <2>2, <3>1 DEF Leads
    <3> QED BY <1>2, <2>2, <3>1, <3>2
  <2> QED BY <2>1, <2>2
<1>7. \A k \in P : k < next' <=> k < n \/ k = n
  <2> TAKE k \in P
  <2>1. k \in Nat /\ n \in Nat
    BY <1>2, <1>3
  <2>2. CASE TakesValue(n)
    <3>1. k # n + 1 /\ next' = n + 2
      BY <1>5, <2>2
    <3> QED BY <2>1, <3>1
  <2>3. CASE ~TakesValue(n)
    BY <2>1, <2>3
  <2> QED BY <2>2, <2>3
<1>8. \A k \in P : k < next' => argv'[k] # "--help"
  BY <1>7 DEF Reading
<1>9. ASSUME NEW o \in Valued
      PROVE  config'[o] = IF Given(o)' = {} THEN Default[o] ELSE Value(o, argv[Max(Given(o)') + 1])
  <2> DEFINE G == Given(o)
             H == Given(o)'
  <2>1. H = { k \in P : k < next' /\ argv[k] = o /\ TakesValue(k) }
    BY <1>1 DEF Given
  <2>2. config[o] = IF G = {} THEN Default[o] ELSE Value(o, argv[Max(G) + 1])
    BY DEF Reading
  <2>3. CASE TakesValue(n) /\ argv[n] = o
    <3>1. n \in H
      BY <1>4, <1>7, <2>1, <2>3
    <3>2. \A k \in H : k \in Nat /\ k <= n
      <4> TAKE k \in H
      <4>1. k \in P /\ k < next'
        BY <2>1
      <4>2. k \in Nat /\ n \in Nat
        BY <1>2, <1>3, <4>1
      <4>3. k < n \/ k = n
        BY <1>7, <4>1
      <4> QED BY <4>2, <4>3
    <3> HIDE DEF H
    <3>3. Max(H) \in H /\ \A k \in H : Max(H) >= k
      <4>1. \E x \in H : \A k \in H : x >= k
        BY <1>3, <3>1, <3>2
      <4> QED BY <4>1 DEF Max
    <3>4. Max(H) = n
      <4>1. Max(H) \in Nat /\ Max(H) <= n /\ Max(H) >= n /\ n \in Nat
        BY <1>3, <3>1, <3>2, <3>3
      <4> QED BY <4>1
    <3>5. config'[o] = Value(o, argv[n + 1])
      BY <2>3
    <3> QED BY <3>1, <3>4, <3>5 DEF H
  <2>4. CASE ~ (TakesValue(n) /\ argv[n] = o)
    <3>1. H = G
      BY <1>7, <2>1, <2>4 DEF Given
    <3>2. config'[o] = config[o]
      BY <2>4
    <3> HIDE DEF G, H
    <3> QED BY <2>2, <3>1, <3>2 DEF H
  <2> QED BY <2>3, <2>4
<1> QED BY <1>1, <1>6, <1>8, <1>9 DEF Reading

LEMMA StepRead ==
  ASSUME TypeOK, ConfigType, ReadInv, [Next]_vars PROVE ReadInv'
<1>1. CASE OptionWithValue
  <2>1. TakesValue(next) /\ phase = "parse" /\ phase' = "parse"
    BY <1>1 DEF OptionWithValue, TakesValue, Parsing
  <2>2. /\ argv[next] \in Valued /\ argv' = argv /\ next' = next + 2
        /\ config' = [config EXCEPT ![argv[next]] = Value(argv[next], argv[next + 1])]
    BY <1>1 DEF OptionWithValue
  <2>3. \A o \in Valued : config'[o] = IF argv[next] = o THEN Value(o, argv[next + 1]) ELSE config[o]
    BY <2>2 DEF ConfigType
  <2>4. argv[next] # "--help"
    BY <2>2 DEF Valued
  <2>5. Reading /\ Parsing
    BY <1>1, <2>1 DEF ReadInv, OptionWithValue
  <2>6. Reading'
    BY <2>1, <2>2, <2>3, <2>4, <2>5, OneOptionRead
  <2> QED BY <2>1, <2>6 DEF ReadInv
<1>2. CASE OptionVerbose \/ OptionUnknown
  <2>1. ~TakesValue(next) /\ Parsing /\ phase = "parse" /\ phase' = "parse"
    BY <1>2 DEF OptionVerbose, OptionUnknown, TakesValue, Parsing, Valued, TypeOK
  <2>2. argv' = argv /\ next' = next + 1 /\ argv[next] # "--help"
    BY <1>2 DEF OptionVerbose, OptionUnknown
  <2>3. \A o \in Valued : config'[o] = config[o]
    BY <1>2 DEF OptionVerbose, OptionUnknown, ConfigType, Valued
  <2>4. Reading
    BY <2>1 DEF ReadInv
  <2>5. Reading'
    BY <2>1, <2>2, <2>3, <2>4, OneOptionRead
  <2> QED BY <2>1, <2>5 DEF ReadInv
<1>3. CASE OptionHelp
  BY <1>3 DEF OptionHelp, ReadInv
<1>4. CASE /\ UNCHANGED parser
           /\ phase' = "exited" \/ (phase # "exited" /\ next = Len(argv) + 1) \/ phase' = phase
  <2>1. argv' = argv /\ next' = next /\ config' = config
    BY <1>4 DEF parser
  <2>2. Reading' <=> Reading
    <3>1. OptionPositions' = OptionPositions /\ \A k : TakesValue(k)' = TakesValue(k)
      BY <2>1 DEF OptionPositions, TakesValue
    <3>2. \A o : Given(o)' = Given(o)
      BY <2>1, <3>1 DEF Given
    <3> QED BY <2>1, <3>1, <3>2 DEF Reading
  <2> QED BY <1>4, <2>1, <2>2 DEF ReadInv
<1>5. ASSUME Next, ~Parse
      PROVE  /\ UNCHANGED parser
             /\ \/ phase' = "exited" \/ phase' = phase
                \/ phase # "exited" /\ (phase = "parse" => next > Len(argv))
  BY <1>5
     DEF Next, Program, Clients, SetUp, Construct, StartRun, Resolve, CandidateFails, CandidateListens,
         NotListening, NonBlockingFails, Return, NonBlocking, Goto, PollerFails, PollerCreated,
         RegisterFails, CleanUp, Registered, Loops, EventsOverflow, WaitInvalid, MainReturns,
         ConnectionOpens, ConnectionCloses, LoopEnds, LoopKilled
<1>6. phase # "exited" /\ (phase = "parse" => next > Len(argv)) => next = Len(argv) + 1
  BY DEF ReadInv, TypeOK
<1>7. UNCHANGED vars => UNCHANGED parser /\ phase' = phase
  BY DEF vars
<1> QED BY <1>1, <1>2, <1>3, <1>4, <1>5, <1>6, <1>7 DEF Parse

(* What the command line says is what the options have (config.cc:11-28): a    *)
(* word that is swallowed as a value is no option, the last of several values   *)
(* counts; for any words, numbers and length.                                  *)
THEOREM ConfigAlwaysAsGiven == Spec => []ConfigAsGiven
<1>1. Init => TypedInv /\ ReadInv
  BY InitOpen, InitTyped, InitRead DEF TypedInv
<1>2. TypedInv /\ ReadInv /\ [Next]_vars => (TypedInv /\ ReadInv)'
  BY StartStep, ParseTyped, RunTyped, StepRead DEF TypedInv
<1>3. TypedInv /\ ReadInv => ConfigAsGiven
  <2> SUFFICES ASSUME TypeOK, ReadInv, phase \notin {"parse", "exited"} PROVE ConfigAsGiven
    BY DEF TypedInv, ConfigAsGiven
  <2>1. PositionsUpTo(Len(argv), OptionPositions)
    BY Positions DEF TypeOK
  <2>2. Reading /\ \A k \in OptionPositions : k < next
    BY <2>1 DEF ReadInv, PositionsUpTo, TypeOK
  <2>3. \A o : Given(o) = { k \in OptionPositions : argv[k] = o /\ TakesValue(k) }
    BY <2>2 DEF Given
  <2> QED BY <2>2, <2>3 DEF ConfigAsGiven, Reading
<1> QED BY <1>1, <1>2, <1>3, PTL DEF Spec
=============================================================================
