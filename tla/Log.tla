--------------------------------- MODULE Log ---------------------------------
(***************************************************************************)
(* The logger selection of elkodon_bb_log (log/src/lib.rs) and the log()   *)
(* of its console logger (logger/console.rs).  The logger is a static mut  *)
(* written only inside INIT.call_once: set_logger() installs the caller's  *)
(* logger there, and get_logger(), which every log macro calls, installs   *)
(* DEFAULT_LOGGER there and then reads LOGGER and unwraps it.  The console *)
(* logger takes a number from its counter and drops a message below the   *)
(* current LOG_LEVEL.                                                      *)
(*                                                                         *)
(* std's Once is not code of this repository; call_once is modelled by its *)
(* contract: the first caller runs the closure and completes the Once,     *)
(* a caller that finds it running blocks until it completes, and a caller  *)
(* that finds it complete returns at once.  Formatting and printing are    *)
(* left out; a custom logger's log() is opaque.                            *)
(***************************************************************************)
EXTENDS Naturals, FiniteSets

CONSTANTS
  Threads,  \* threads that log and may call set_logger() or set_log_level()
  Custom,   \* loggers the program may pass to set_logger()
  Levels,   \* LogLevel values (0 Trace .. 5 Fatal) used by calls
  MaxLogs   \* number of log calls (bounds the console counter)

ASSUME Levels \subseteq 0..5 /\ MaxLogs \in Nat

None == "none"
Default == "default"  \* DEFAULT_LOGGER, the console logger

VARIABLES
  once,       \* state of INIT
  LOGGER,     \* the static mut LOGGER
  LOG_LEVEL,  \* the AtomicU8 LOG_LEVEL
  counter,    \* DEFAULT_LOGGER.counter
  printed,    \* messages the console logger printed
  pc,         \* pc[t]: where thread t is in set_logger() or a log call
  arg,        \* arg[t]: the logger t's set_logger() passes
  level,      \* level[t]: the level of t's message
  ret,        \* ret[t]: what t's last set_logger() returned
  logs,       \* log calls made so far
  used        \* ghost: the loggers log calls went to

vars == <<once, LOGGER, LOG_LEVEL, counter, printed, pc, arg, level, ret, logs,
          used>>

Pcs == {"idle", "set_closure", "set_wait", "get_closure", "get_wait",
        "get_read", "panicked"}

Init ==
  /\ once = "incomplete"
  /\ LOGGER = None
  /\ LOG_LEVEL = 0
  /\ counter = 0
  /\ printed = 0
  /\ pc = [t \in Threads |-> "idle"]
  /\ arg = [t \in Threads |-> None]
  /\ level = [t \in Threads |-> 0]
  /\ ret = [t \in Threads |-> "none"]
  /\ logs = 0
  /\ used = {}

(* INIT.call_once by t: run the closure (pc run), wait for the running     *)
(* closure of another thread (pc wait), or return (pc done).               *)
CallOnce(t, run, wait, done) ==
  \/ once = "incomplete" /\ once' = "running" /\ pc' = [pc EXCEPT ![t] = run]
  \/ once = "running" /\ pc' = [pc EXCEPT ![t] = wait] /\ UNCHANGED once
  \/ once = "complete" /\ pc' = [pc EXCEPT ![t] = done] /\ UNCHANGED once

(* set_log_level(): a store.                                               *)
SetLogLevel(t, l) ==
  /\ pc[t] = "idle"
  /\ LOG_LEVEL' = l
  /\ UNCHANGED <<once, LOGGER, counter, printed, pc, arg, level, ret, logs,
                 used>>

(* A set_logger() that stores its logger whether or not one is installed. *)
SetLoggerStore(t, v) ==
  /\ pc[t] = "idle"
  /\ arg' = [arg EXCEPT ![t] = v]
  /\ LOGGER' = v
  /\ ret' = [ret EXCEPT ![t] = "true"]
  /\ once' = "complete"
  /\ UNCHANGED <<LOG_LEVEL, counter, printed, pc, level, logs, used>>

(* set_logger(value): call_once; a complete INIT returns false at once.    *)
SetLogger(t, v) ==
  /\ pc[t] = "idle"
  /\ arg' = [arg EXCEPT ![t] = v]
  /\ CallOnce(t, "set_closure", "set_wait", "idle")
  /\ ret' = [ret EXCEPT ![t] = IF once = "complete" THEN "false" ELSE "none"]
  /\ UNCHANGED <<LOGGER, LOG_LEVEL, counter, printed, level, logs, used>>

(* set_logger()'s closure stores the logger and set_logger_success; the    *)
(* Once completes and set_logger returns true.                             *)
SetClosure(t) ==
  /\ pc[t] = "set_closure"
  /\ LOGGER' = arg[t]
  /\ once' = "complete"
  /\ pc' = [pc EXCEPT ![t] = "idle"]
  /\ ret' = [ret EXCEPT ![t] = "true"]
  /\ UNCHANGED <<LOG_LEVEL, counter, printed, arg, level, logs, used>>

(* A set_logger() that waited for another closure returns false.           *)
SetWait(t) ==
  /\ pc[t] = "set_wait" /\ once = "complete"
  /\ pc' = [pc EXCEPT ![t] = "idle"]
  /\ ret' = [ret EXCEPT ![t] = "false"]
  /\ UNCHANGED <<once, LOGGER, LOG_LEVEL, counter, printed, arg, level, logs,
                 used>>

(* A get_logger() whose call_once returns while another closure runs.     *)
GetLoggerNoWait(t, l) ==
  /\ pc[t] = "idle" /\ logs < MaxLogs
  /\ level' = [level EXCEPT ![t] = l]
  /\ logs' = logs + 1
  /\ CallOnce(t, "get_closure", "get_read", "get_read")
  /\ UNCHANGED <<LOGGER, LOG_LEVEL, counter, printed, arg, ret, used>>

(* A log macro of level l: __internal_print_log_msg calls get_logger(),    *)
(* which starts with call_once.                                            *)
GetLogger(t, l) ==
  /\ pc[t] = "idle" /\ logs < MaxLogs
  /\ level' = [level EXCEPT ![t] = l]
  /\ logs' = logs + 1
  /\ CallOnce(t, "get_closure", "get_wait", "get_read")
  /\ UNCHANGED <<LOGGER, LOG_LEVEL, counter, printed, arg, ret, used>>

(* get_logger()'s closure installs DEFAULT_LOGGER; the Once completes.     *)
GetClosure(t) ==
  /\ pc[t] = "get_closure"
  /\ LOGGER' = Default
  /\ once' = "complete"
  /\ pc' = [pc EXCEPT ![t] = "get_read"]
  /\ UNCHANGED <<LOG_LEVEL, counter, printed, arg, level, ret, logs, used>>

GetWait(t) ==
  /\ pc[t] = "get_wait" /\ once = "complete"
  /\ pc' = [pc EXCEPT ![t] = "get_read"]
  /\ UNCHANGED <<once, LOGGER, LOG_LEVEL, counter, printed, arg, level, ret,
                 logs, used>>

(* get_logger() reads LOGGER and unwraps it, which panics on None; the     *)
(* logger's log() follows.  The console logger takes a number from its     *)
(* counter (fetch_add) and returns when the message is below LOG_LEVEL;    *)
(* otherwise it prints, which is counted and not formatted.                *)
LogWith(t) ==
  /\ pc[t] = "get_read"
  /\ IF LOGGER = None
       THEN /\ pc' = [pc EXCEPT ![t] = "panicked"]
            /\ UNCHANGED <<counter, printed, used>>
       ELSE /\ pc' = [pc EXCEPT ![t] = "idle"]
            /\ used' = used \cup {LOGGER}
            /\ counter' = IF LOGGER = Default THEN counter + 1 ELSE counter
            /\ printed' = IF LOGGER = Default /\ LOG_LEVEL <= level[t]
                             THEN printed + 1 ELSE printed
  /\ UNCHANGED <<once, LOGGER, LOG_LEVEL, arg, level, ret, logs>>

Next ==
  \E t \in Threads :
    \/ \E l \in Levels : SetLogLevel(t, l)
    \/ \E v \in Custom : SetLogger(t, v)
    \/ SetClosure(t)
    \/ SetWait(t)
    \/ \E l \in Levels : GetLogger(t, l)
    \/ GetClosure(t)
    \/ GetWait(t)
    \/ LogWith(t)

Spec == Init /\ [][Next]_vars

TypeOK ==
  /\ once \in {"incomplete", "running", "complete"}
  /\ LOGGER \in {None, Default} \cup Custom
  /\ LOG_LEVEL \in 0..5
  /\ counter \in 0..MaxLogs
  /\ printed \in 0..counter
  /\ pc \in [Threads -> Pcs]
  /\ arg \in [Threads -> {None} \cup Custom]
  /\ level \in [Threads -> 0..5]
  /\ ret \in [Threads -> {"none", "true", "false"}]
  /\ logs \in 0..MaxLogs
  /\ used \subseteq {Default} \cup Custom

(* get_logger() never unwraps a None: a log call that races the closure of *)
(* set_logger() or of another get_logger() reads LOGGER only after it is  *)
(* stored.                                                                 *)
NoUnwrapPanic == \A t \in Threads : pc[t] # "panicked"

(* Every log call goes to one logger, and when a set_logger() returned     *)
(* true it is that call's logger: a log racing set_logger() never goes to  *)
(* DEFAULT_LOGGER while set_logger() reports success, and a second         *)
(* set_logger() never replaces a logger in use.                            *)
OneLogger ==
  /\ Cardinality(used) <= 1
  /\ \A t \in Threads : ret[t] = "true" => used \subseteq {arg[t]}

====
