---------------------------- MODULE SigintHandler ----------------------------
(***************************************************************************)
(* The handler of SIGINT in tools/collapse/main.cpp, which uses the logging *)
(* library while it interrupts the only thread, maybe inside that library. *)
(*                                                                         *)
(* The library (third-party/spdlog) guards its registry of loggers and each *)
(* sink by a mutex, which is not recursive: a call of the handler for a    *)
(* mutex that the interrupted code holds never returns.  What main does is *)
(* a list of the calls it still makes; between them it does its own work.  *)
(***************************************************************************)
EXTENDS Sequences, Integers

CONSTANTS
  MaxCofactors,   \* bound on the cofactors collapsed
  MaxLines        \* bound on the data lines of each

ASSUME BoundsAssumption == MaxCofactors \in Nat \ {0} /\ MaxLines \in Nat

Loggers == {"console", "data"}

VARIABLES
  calls,       \* what main has still to call
  held,        \* the mutex of the call main is in: "registry", a sink, or "none"
  loggers,     \* the loggers that are registered
  installed,   \* the handler is
  handler,     \* where the handler is
  ended        \* main has returned

handlerVars == <<calls, held, loggers, installed, handler, ended>>

-----------------------------------------------------------------------------
(* main *)

Calls == [op : {"create", "get", "log", "signal"}, logger : Loggers]

Create(l)  == [op |-> "create", logger |-> l]
Get(l)     == [op |-> "get", logger |-> l]
Log(l)     == [op |-> "log", logger |-> l]
InstallIt  == [op |-> "signal", logger |-> "console"]

Repeat(s, n) == [k \in 1 .. n * Len(s) |-> s[((k - 1) % Len(s)) + 1]]

\* Mutant of Startup: the handler is installed before there is a logger.
StartupInstalling == <<InstallIt, Create("console")>>

Startup == <<Create("console"), InstallIt>>

\* The options are no good, or no file is given, or its name is looked at and
\* refused.
Rejections == {<<>>, <<Log("console")>>, <<Get("console"), Log("console")>>}

\* A cofactor is collapsed.  Only aig_extr_mngr uses loggers: it looks both up,
\* and logs a title and a line for each gate and output if there are data lines.
CofactorCalls(method, verbose, lines) ==
  <<Log("console")>> \o
  (IF method = "bdd" THEN <<>>
   ELSE <<Get("console"), Get("data")>>
          \o (IF verbose THEN <<Log("console")>> ELSE <<>>)
          \o Repeat(<<Log("data")>>, lines))

CollapseCalls(method, verbose, lines, n) ==
  <<Get("console")>> \o (IF lines > 0 THEN <<Create("data")>> ELSE <<>>)
    \o Repeat(CofactorCalls(method, verbose, lines), n)

Collapses ==
  {CollapseCalls(method, verbose, lines, n) :
     method \in {"aig", "bdd"}, verbose \in BOOLEAN,
     lines \in 0 .. MaxLines, n \in 1 .. MaxCofactors}

call == Head(calls)
Running == handler = "none" /\ ~ ended

\* The mutex of a call.
MutexOf(c) == IF c.op = "log" THEN c.logger ELSE "registry"

Install ==
  /\ Running /\ calls # <<>> /\ call.op = "signal"
  /\ installed' = TRUE
  /\ calls' = Tail(calls)
  /\ UNCHANGED <<held, loggers, handler, ended>>

\* registry_t::create, registry_t::get and base_sink::log.
Enter ==
  /\ Running /\ calls # <<>> /\ call.op # "signal" /\ held = "none"
  /\ held' = MutexOf(call)
  /\ UNCHANGED <<calls, loggers, installed, handler, ended>>

Leave ==
  /\ Running /\ held # "none"
  /\ held' = "none"
  /\ loggers' = IF call.op = "create" THEN loggers \cup {call.logger} ELSE loggers
  /\ calls' = Tail(calls)
  /\ UNCHANGED <<installed, handler, ended>>

End ==
  /\ Running /\ calls = <<>>
  /\ ended' = TRUE
  /\ UNCHANGED <<calls, held, loggers, installed, handler>>

-----------------------------------------------------------------------------
(* exit_SIGINT *)

Proceed(place) ==
  /\ handler' = place
  /\ UNCHANGED <<calls, held, loggers, installed, ended>>

\* Further signals are blocked while the handler runs.
Interrupt == installed /\ Running /\ Proceed("get data")

\* registry_t::get takes the mutex of the registry.
GetData ==
  /\ handler = "get data" /\ held # "registry"
  /\ Proceed(IF "data" \in loggers THEN "flush" ELSE "get console")

\* Mutant of Flush: flushing takes the mutex of the sink, as logging does.
FlushLocked ==
  /\ handler = "flush" /\ held # "data"
  /\ Proceed("get console")

\* base_sink::flush takes no mutex.
Flush ==
  /\ handler = "flush"
  /\ Proceed("get console")

GetConsole ==
  /\ handler = "get console" /\ held # "registry"
  /\ Proceed("critical")

\* base_sink::log takes the mutex of the console; then the program exits.
Critical ==
  /\ handler = "critical" /\ held # "console"
  /\ Proceed("exited")

-----------------------------------------------------------------------------
HandlerInit ==
  /\ \E work \in Rejections \cup Collapses : calls = Startup \o work
  /\ held = "none" /\ loggers = {} /\ installed = FALSE
  /\ handler = "none" /\ ended = FALSE

Handle == GetData \/ Flush \/ GetConsole \/ Critical
Main == Install \/ Enter \/ Leave \/ End
HandlerNext == Main \/ Interrupt \/ Handle

HandlerSpec == HandlerInit /\ [][HandlerNext]_handlerVars

\* Main and the handler run until they end or wait for ever.
HandlerFairSpec == HandlerSpec /\ WF_handlerVars(Main) /\ WF_handlerVars(Handle)

-----------------------------------------------------------------------------
(* Properties *)

\* The handler logs to the console logger without looking whether there is
\* one: whenever it can be called, there is, and it flushes only a data logger
\* that exists.
LoggersFound ==
  /\ installed => "console" \in loggers
  /\ handler = "flush" => "data" \in loggers

\* An interrupt ends the program, unless it comes inside a lookup or creation
\* of a logger or a line for the console: a data line being written is no
\* obstacle.
InterruptEnds ==
  (handler # "none" /\ held \notin {"registry", "console"}) ~> (handler = "exited")

\* Without an interrupt main ends; with one, either the handler ends the program
\* or it waits for the mutex of the very call it has interrupted.
EndsOrWaits ==
  <>(ended \/ handler = "exited"
     \/ (handler # "none" /\ held \in {"registry", "console"}))
=============================================================================
