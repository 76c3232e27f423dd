------------------------------- MODULE Startup -------------------------------
(***************************************************************************)
(* The program around the event loop: the command line (server/config.cc),  *)
(* main (server/main.cc), ProxyServer::Run up to its loop and               *)
(* CleanUpResources after it (server/proxy_server.cc), and the listening     *)
(* socket (core/os/linux/network_linux.cc CreateListeningSocket).           *)
(*                                                                          *)
(* What can go wrong here is bookkeeping: every call may fail, and each      *)
(* failure leaves another set of descriptors to be closed.  The loop itself  *)
(* is module ProxyServer; of it, only the descriptors it opens and closes    *)
(* and the ways it ends are here.                                           *)
(***************************************************************************)
EXTENDS Integers, Sequences, FiniteSets, Functions, FiniteSetsExt

CONSTANTS
  MaxFd,          \* the largest descriptor the process may have (its rlimit)
  Words,          \* what a command line is made of
  MaxWords,       \* bound: the length of a command line
  Numeral,        \* the value of the words that are numbers
  MaxCandidates,  \* bound: the addresses getaddrinfo returns
  StackEvents     \* how many PollEvents the stack has room for

ASSUME FdAssumption == MaxFd \in Nat /\ MaxFd >= 2
ASSUME WordAssumption == IsFiniteSet(Words) /\ DOMAIN Numeral \subseteq Words
                         /\ \A w \in DOMAIN Numeral : Numeral[w] \in Int
ASSUME BoundAssumption == MaxWords \in Nat /\ MaxCandidates \in Nat /\ StackEvents \in Nat

Fd == 0..MaxFd
Unset == -2   \* socket_ or poller_ that was never assigned: any value at all
None == -1    \* what the calls that create a descriptor return when they fail

VARIABLES
  phase,       \* where main is
  argv,        \* the command line without the program's name
  next,        \* i in ParseConfig: the word to be read next
  config,      \* the values of the options
  open,        \* descriptor -> what it is, for every open one
  held,        \* history: the descriptors that were open before Run
  candidates,  \* addresses that CreateListeningSocket has not tried yet
  socket_, poller_

parser == <<argv, next, config>>
run == <<held, candidates, socket_, poller_>>
vars == <<phase, parser, open, run>>

-----------------------------------------------------------------------------
(* ParseConfig. *)

Valued == {"--port", "--backlog", "--max-events", "--bind-host"}

Default == [ o \in Valued \cup {"--verbose"} |->
               CASE o = "--port" -> 8080
                 [] o = "--backlog" -> 128
                 [] o = "--max-events" -> 16
                 [] o = "--bind-host" -> ""
                 [] OTHER -> FALSE ]

(* atoi: a word that is no number is 0. *)
atoi(word) == IF word \in DOMAIN Numeral THEN Numeral[word] ELSE 0

Value(option, word) == IF option = "--bind-host" THEN word ELSE atoi(word)

Parsing == phase = "parse" /\ next <= Len(argv)

(* Mutant: the value is read again, as an option. *)
OptionRereadsValue ==
  /\ Parsing
  /\ argv[next] \in Valued /\ next < Len(argv)
  /\ config' = [config EXCEPT ![argv[next]] = Value(argv[next], argv[next + 1])]
  /\ next' = next + 1
  /\ UNCHANGED <<phase, argv, open, run>>

(* An option with a value takes the next word, whatever that is. *)
OptionWithValue ==
  /\ Parsing
  /\ argv[next] \in Valued /\ next < Len(argv)
  /\ config' = [config EXCEPT ![argv[next]] = Value(argv[next], argv[next + 1])]
  /\ next' = next + 2
  /\ UNCHANGED <<phase, argv, open, run>>

OptionVerbose ==
  /\ Parsing /\ argv[next] = "--verbose"
  /\ config' = [config EXCEPT !["--verbose"] = TRUE]
  /\ next' = next + 1
  /\ UNCHANGED <<phase, argv, open, run>>

OptionHelp ==
  /\ Parsing /\ argv[next] = "--help"
  /\ phase' = "exited"
  /\ UNCHANGED <<parser, open, run>>

(* Mutant: an unknown option is taken to have a value.                      *)
OptionSkipsNext ==
  /\ Parsing
  /\ argv[next] \notin {"--verbose", "--help"}
  /\ argv[next] \notin Valued \/ next = Len(argv)
  /\ next' = next + 2
  /\ UNCHANGED <<phase, argv, config, open, run>>

(* Anything else is reported and skipped, an option without a value too. *)
OptionUnknown ==
  /\ Parsing
  /\ argv[next] \notin {"--verbose", "--help"}
  /\ argv[next] \notin Valued \/ next = Len(argv)
  /\ next' = next + 1
  /\ UNCHANGED <<phase, argv, config, open, run>>

Parse == OptionWithValue \/ OptionVerbose \/ OptionHelp \/ OptionUnknown

-----------------------------------------------------------------------------
(* The kernel's descriptors. *)

Lowest(f) == f \in Fd \ DOMAIN open /\ \A g \in Fd \ DOMAIN open : f <= g

Opened(f, what) == [ g \in DOMAIN open \cup {f} |-> IF g = f THEN what ELSE open[g] ]
Without(gone) == Restrict(open, DOMAIN open \ gone)

-----------------------------------------------------------------------------
(* The constructor opens the log file, or fails to and goes on without. *)

StartRun(after) ==
  /\ phase = "parse" /\ next > Len(argv)
  /\ open' = after
  /\ held' = DOMAIN after
  /\ phase' = "resolve"
  /\ UNCHANGED <<parser, candidates, socket_, poller_>>

Construct == StartRun(open) \/ \E f \in Fd : Lowest(f) /\ StartRun(Opened(f, "log"))

(* CreateListeningSocket: getaddrinfo, then one step for each candidate. *)

Resolve ==
  /\ phase = "resolve"
  /\ phase' = "listen"
  /\ candidates' \in 0..MaxCandidates
  /\ UNCHANGED <<parser, open, held, socket_, poller_>>

(* No socket, or it cannot be bound or listen and is closed again. *)
CandidateFails ==
  /\ phase = "listen" /\ candidates > 0
  /\ candidates' = candidates - 1
  /\ UNCHANGED <<phase, parser, open, held, socket_, poller_>>

(* Mutant: the loop goes on after a success. *)
CandidateListensOn ==
  /\ phase = "listen" /\ candidates > 0
  /\ \E f \in Fd : Lowest(f) /\ open' = Opened(f, "listener") /\ socket_' = f
  /\ candidates' = candidates - 1
  /\ phase' = IF candidates = 1 THEN "nonblock" ELSE "listen"
  /\ UNCHANGED <<parser, held, poller_>>

(* The first candidate that binds and listens is the listening socket. *)
CandidateListens ==
  /\ phase = "listen" /\ candidates > 0
  /\ \E f \in Fd : Lowest(f) /\ open' = Opened(f, "listener") /\ socket_' = f
  /\ phase' = "nonblock"
  /\ UNCHANGED <<parser, held, candidates, poller_>>

(* No address, or none that works: Run returns without cleaning up. *)
NotListening ==
  /\ phase = "listen" /\ candidates = 0
  /\ socket_' = None
  /\ phase' = "returned"
  /\ UNCHANGED <<parser, open, held, candidates, poller_>>

-----------------------------------------------------------------------------
(* CleanUpResources, and Run returns: the connections are erased, then the  *)
(* poller and the listening socket closed, if their descriptors are greater  *)
(* than 0; `poller' is what poller_ holds.                                  *)

(* Mutant: the poller is left open. *)
PollerKept(poller) ==
  Without({ f \in DOMAIN open : open[f] = "connection" } \cup ({socket_} \ {0}))

Cleaned(poller) ==
  Without({ f \in DOMAIN open : open[f] = "connection" } \cup ({poller, socket_} \ {0}))

Return(poller) ==
  /\ open' = Cleaned(poller)
  /\ socket_' = 0
  /\ phase' = "returned"
  /\ UNCHANGED <<parser, held, candidates>>

CleanUp == Return(poller_) /\ poller_' = 0

Goto(there) == phase' = there /\ UNCHANGED <<parser, open, run>>

(* poller_ is read before it was assigned: it may be any number. *)
NonBlockingFails ==
  /\ phase = "nonblock"
  /\ \E garbage \in Fd \cup {None} : Return(garbage)
  /\ poller_' = poller_

NonBlocking == phase = "nonblock" /\ Goto("poller")

PollerFails == phase = "poller" /\ Return(None) /\ poller_' = None

PollerCreated ==
  /\ phase = "poller"
  /\ \E f \in Fd : Lowest(f) /\ open' = Opened(f, "poller") /\ poller_' = f
  /\ phase' = "register"
  /\ UNCHANGED <<parser, held, candidates, socket_>>

RegisterFails == phase = "register" /\ CleanUp
Registered == phase = "register" /\ Goto("events")

SetUp == \/ NonBlockingFails \/ NonBlocking \/ PollerFails \/ PollerCreated
         \/ RegisterFails \/ Registered

-----------------------------------------------------------------------------
(* The loop. *)

MaxEvents == config["--max-events"]

Loops == phase = "events" /\ MaxEvents \in 0..StackEvents /\ Goto("loop")

(* The events array has more elements than the stack, or, for a negative     *)
(* number, than anything has: the stack overflows or the vector in            *)
(* WaitForEvents throws what nobody catches.                                 *)
EventsOverflow ==
  /\ phase = "events" /\ MaxEvents \notin 0..StackEvents
  /\ phase' = "killed"
  /\ open' = Without(DOMAIN open)
  /\ UNCHANGED <<parser, run>>

(* Mutant: a wait that fails is taken for one that a signal interrupted, and *)
(* tried again.                                                              *)
WaitRetried == phase = "loop" /\ MaxEvents = 0 /\ UNCHANGED vars

(* epoll_wait refuses room for no events; the loop is over at its first turn. *)
WaitInvalid == phase = "loop" /\ MaxEvents = 0 /\ CleanUp

(* A connection is accepted or made. *)
ConnectionOpens ==
  /\ phase = "loop" /\ MaxEvents > 0
  /\ \E f \in Fd : Lowest(f) /\ open' = Opened(f, "connection")
  /\ UNCHANGED <<phase, parser, run>>

ConnectionCloses ==
  /\ phase = "loop" /\ MaxEvents > 0
  /\ \E f \in DOMAIN open : open[f] = "connection" /\ open' = Without({f})
  /\ UNCHANGED <<phase, parser, run>>

(* A signal, an error of epoll_wait or one of the listening socket. *)
LoopEnds == phase = "loop" /\ MaxEvents > 0 /\ CleanUp

(* SIGPIPE, in a write of the loop. *)
LoopKilled ==
  /\ phase = "loop" /\ { f \in DOMAIN open : open[f] = "connection" } # {}
  /\ phase' = "killed"
  /\ open' = Without(DOMAIN open)
  /\ UNCHANGED <<parser, run>>

(* main returns: the server is destroyed and with it the log file closed. *)
MainReturns ==
  /\ phase = "returned"
  /\ phase' = "exited"
  /\ open' = Without({ f \in DOMAIN open : open[f] = "log" })
  /\ UNCHANGED <<parser, run>>

-----------------------------------------------------------------------------
Init ==
  /\ phase = "parse"
  /\ argv \in UNION { [1..n -> Words] : n \in 0..MaxWords }
  /\ next = 1 /\ config = Default
  /\ \E inherited \in { {0, 1, 2}, {1, 2} } : open = [ f \in inherited |-> "inherited" ]
  /\ held = {} /\ candidates = 0
  /\ socket_ = Unset /\ poller_ = Unset

Program ==
  \/ Parse \/ Construct \/ Resolve
  \/ CandidateFails \/ CandidateListens \/ NotListening
  \/ SetUp \/ Loops \/ EventsOverflow \/ WaitInvalid \/ MainReturns

Clients == ConnectionOpens \/ ConnectionCloses \/ LoopEnds \/ LoopKilled

Next == Program \/ Clients

Spec == Init /\ [][Next]_vars
FairSpec == Spec /\ WF_vars(Program)

-----------------------------------------------------------------------------
(* Properties. *)

Holder == {"inherited", "log", "listener", "poller", "connection"}

(* The type of every variable. *)
TypeOK ==
  /\ phase \in {"parse", "resolve", "listen", "nonblock", "poller", "register",
                "events", "loop", "returned", "exited", "killed"}
  /\ argv \in Seq(Words) /\ next \in 1..(Len(argv) + 1)
  /\ \A o \in {"--port", "--backlog", "--max-events"} : config[o] \in Int
  /\ DOMAIN open \subseteq Fd /\ \A f \in DOMAIN open : open[f] \in Holder
  /\ held \subseteq Fd
  /\ candidates \in 0..MaxCandidates
  /\ socket_ \in Fd \cup {None, Unset} /\ poller_ \in Fd \cup {None, Unset}

(* When Run returns, on whichever path, what it opened is closed again, but  *)
(* for a listening socket that was given descriptor 0 (CleanUpResources       *)
(* takes 0 for "none", proxy_server.cc:280); and what was open before is      *)
(* still open, but when poller_ was read before it was assigned               *)
(* (proxy_server.cc:29): then one more descriptor may have been closed, the   *)
(* log file's or one of the standard streams.                                *)
CleanExit ==
  phase = "returned" =>
    /\ DOMAIN open \subseteq held \cup {0}
    /\ held \subseteq DOMAIN open \/ (poller_ = Unset /\ socket_ # None)
    /\ Cardinality(held \ DOMAIN open) <= 1

(* The loop is handed one listening socket and one poller, under the numbers  *)
(* that socket_ and poller_ hold, and beside them only what was open before:   *)
(* no socket of a candidate that was given up or not needed stays open.  This  *)
(* is what module ProxyServer takes for granted.                             *)
LoopHandedOver ==
  phase = "loop" =>
    /\ { f \in DOMAIN open : open[f] = "listener" } = {socket_}
    /\ { f \in DOMAIN open : open[f] = "poller" } = {poller_}
    /\ { f \in DOMAIN open : open[f] \in {"log", "inherited"} } = held

(* The words that are read as options: the first one, and each that follows  *)
(* an option without a value or the value of one.                            *)
TakesValue(k) == argv[k] \in Valued /\ k < Len(argv)
OptionPositions ==
  CHOOSE P \in SUBSET (1..Len(argv)) :
    \A k \in 1..Len(argv) :
      k \in P <=> \/ k = 1
                  \/ k - 1 \in P /\ ~TakesValue(k - 1)
                  \/ k - 2 \in P /\ TakesValue(k - 2)

(* Of an option that is given more than once the last value counts, of one    *)
(* that is not given the default; a word that is swallowed as a value is no    *)
(* option (config.cc:11-28), "--help" neither.                                *)
ConfigAsGiven ==
  phase \notin {"parse", "exited"} =>
    /\ \A k \in OptionPositions : argv[k] # "--help"
    /\ \A o \in Valued :
         LET given == { k \in OptionPositions : argv[k] = o /\ TakesValue(k) }
         IN config[o] = IF given = {} THEN Default[o] ELSE Value(o, argv[Max(given) + 1])

(* Every start ends, or reaches a loop that can wait for at least one event;  *)
(* no command line and no failure makes it hang or spin before.               *)
StartSettles ==
  <>(phase \in {"exited", "killed"} \/ (phase = "loop" /\ MaxEvents > 0))
=============================================================================
