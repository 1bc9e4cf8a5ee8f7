--------------------------- MODULE RuntimeCommands ---------------------------
(***************************************************************************)
(* page/src/runtime_command_service.ts with its callers in app_runtime.ts: *)
(* the Run and the Download button type command lines into session 0 of    *)
(* the guest, over shared-object channels that the generation opens when   *)
(* it is constructed and closes when it is disposed of.  A proxy call may  *)
(* be answered late or never; the caller is told of an abort at once.      *)
(*                                                                         *)
(* A call is [kind, at]; its id is its place in the order of the clicks.   *)
(***************************************************************************)
EXTENDS Naturals, Sequences, FiniteSets

CONSTANTS MaxCalls
CallsAssumption == MaxCalls \in Nat

VARIABLES opening,        \* how far construct() is
          open,           \* the channels that are open
          aborted,        \* the generation's signal
          disposed,       \* dispose() of both services
          allDone,        \* the parser service's answer
          readyPending,   \* its microtask has not run
          ready,          \* the command service's own copy
          running,        \* operation = "run"
          calls,
          lines           \* the command lines handed to the guest's channel

commandVars == <<opening, open, aborted, disposed, allDone, readyPending, ready, running, calls, lines>>

\* In the order in which they are opened: the parser's, then the commands'.
Channels == <<"waiter", "waiterRef", "terminalRef", "inputStringRef">>
Constructed == opening = Len(Channels) + 1
Under == {"flush", "queued", "ask", "tell", "type"}
Over == {"done", "refused", "rejected"}
Active(c) == calls[c].at \in Under

Init == /\ opening = 1 /\ open = {} /\ aborted = FALSE /\ disposed = FALSE
        /\ allDone = FALSE /\ readyPending = FALSE /\ ready = FALSE
        /\ running = FALSE /\ calls = <<>> /\ lines = <<>>

(* --- construction -------------------------------------------------------------- *)

Open ==
  /\ opening <= Len(Channels) /\ ~aborted
  /\ open' = open \cup {Channels[opening]} /\ opening' = opening + 1
  /\ readyPending' = (readyPending \/ opening = 1)
  /\ UNCHANGED <<aborted, disposed, allDone, ready, running, calls, lines>>

\* The factory throws, or the generation is aborted from within it: each
\* constructor closes what it has opened, and construct() aborts and disposes
\* of the service that was there already.
OpenFails ==
  /\ opening <= Len(Channels) /\ opening' = 0 /\ aborted' = TRUE /\ disposed' = TRUE
  /\ open' = {}
  /\ UNCHANGED <<allDone, readyPending, ready, running, calls, lines>>

\* The microtask of the parser's ready: unless its controller is aborted.
ParserReady ==
  /\ readyPending /\ opening \notin 1..Len(Channels)
  /\ readyPending' = FALSE /\ allDone' = ~aborted
  /\ UNCHANGED <<opening, open, aborted, disposed, ready, running, calls, lines>>

(* --- calls ----------------------------------------------------------------------- *)

Add(kind, at) == calls' = Append(calls, [kind |-> kind, at |-> at])
Move(c, at) == calls' = [calls EXCEPT ![c].at = at]

\* The call of a proxy is a message to the guest, however it is answered.
Types(c) == Move(c, "type") /\ lines' = Append(lines, c)

\* run() of AppRuntime, while nothing else runs.
Run ==
  /\ Constructed /\ ~aborted /\ ~running /\ Len(calls) < MaxCalls
  /\ running' = TRUE /\ Add("run", "flush")
  /\ UNCHANGED <<opening, open, aborted, disposed, allDone, readyPending, ready, lines>>

\* The end of a call: a run gives the operation back.
Ends(c, at) == Move(c, at) /\ running' = (running /\ calls[c].kind # "run")

\* flushWorkspace() has settled: then the service's own run().
Flushed(c) ==
  /\ calls[c].at = "flush" /\ UNCHANGED <<opening, open, aborted, disposed, allDone, readyPending, ready>>
  /\ IF ready THEN Types(c) /\ UNCHANGED running
              ELSE Move(c, "ask") /\ UNCHANGED <<running, lines>>
FlushFails(c) ==
  /\ calls[c].at = "flush" /\ Ends(c, "rejected")
  /\ UNCHANGED <<opening, open, aborted, disposed, allDone, readyPending, ready, lines>>

\* is_all_done() has been answered; if it says no, the terminal is told so.
Asked(c) ==
  /\ calls[c].at = "ask"
  /\ ready' = allDone
  /\ IF allDone THEN Types(c) ELSE Move(c, "tell") /\ UNCHANGED lines
  /\ UNCHANGED <<opening, open, aborted, disposed, allDone, readyPending, running>>
Told(c) ==
  /\ calls[c].at = "tell" /\ Ends(c, "refused")
  /\ UNCHANGED <<opening, open, aborted, disposed, allDone, readyPending, ready, lines>>

\* The guest has taken the line.  Not: the command has ended.
Typed(c) ==
  /\ calls[c].at = "type" /\ Ends(c, "done")
  /\ UNCHANGED <<opening, open, aborted, disposed, allDone, readyPending, ready, lines>>
\* The call of the proxy rejects by itself.
ProxyFails(c) ==
  /\ calls[c].at \in {"ask", "tell", "type"} /\ Ends(c, "rejected")
  /\ UNCHANGED <<opening, open, aborted, disposed, allDone, readyPending, ready, lines>>

\* download(): behind the downloads before it, failed ones included.
Download ==
  /\ Constructed /\ ~aborted /\ Len(calls) < MaxCalls
  /\ Add("download", "queued")
  /\ UNCHANGED <<opening, open, aborted, disposed, allDone, readyPending, ready, running, lines>>

\* Mutant: a download does not wait for the one before it.
DownloadNow(c) ==
  /\ calls[c].at = "queued" /\ calls[c].kind = "download"
  /\ Types(c)
  /\ UNCHANGED <<opening, open, aborted, disposed, allDone, readyPending, ready, running>>

DownloadTurn(c) ==
  /\ calls[c].at = "queued"
  /\ \A b \in 1..(c - 1) : calls[b].kind = "download" => calls[b].at \in Over
  /\ Types(c)
  /\ UNCHANGED <<opening, open, aborted, disposed, allDone, readyPending, ready, running>>

(* --- abort and disposal ------------------------------------------------------------ *)

\* The listener of proxyOperation(), and raceAbort() of trackOperation().  The
\* operation is not given back: the phase is "ready" no longer.
Abort ==
  /\ Constructed /\ ~aborted /\ aborted' = TRUE
  /\ calls' = [c \in DOMAIN calls |->
                 IF calls[c].at \in Under THEN [calls[c] EXCEPT !.at = "rejected"] ELSE calls[c]]
  /\ UNCHANGED <<opening, open, disposed, allDone, readyPending, ready, running, lines>>

\* closeChannels() of the commands, then the parser's own.
Dispose ==
  /\ Constructed /\ aborted /\ ~disposed /\ disposed' = TRUE
  /\ open' = {}
  /\ UNCHANGED <<opening, aborted, allDone, readyPending, ready, running, calls, lines>>

CallStep(c) == \/ Flushed(c) \/ FlushFails(c) \/ Asked(c) \/ Told(c) \/ Typed(c) \/ ProxyFails(c)
               \/ DownloadTurn(c)
Next == \/ Open \/ OpenFails \/ ParserReady \/ Run \/ Download \/ Abort \/ Dispose
        \/ \E c \in DOMAIN calls : CallStep(c)

Spec == Init /\ [][Next]_commandVars

(* --- properties ---------------------------------------------------------------------- *)

TypeOK ==
  /\ opening \in 0..(Len(Channels) + 1) /\ open \subseteq {Channels[i] : i \in 1..Len(Channels)}
  /\ {aborted, disposed, allDone, readyPending, ready, running} \subseteq BOOLEAN
  /\ calls \in Seq([kind : {"run", "download"}, at : Under \cup Over])
  /\ lines \in Seq(1..MaxCalls)

\* The downloads are typed one after the other, in the order of the clicks:
\* a line is on its way to the guest only when those before it are over.
DownloadsInTurn ==
  \A i, j \in DOMAIN lines :
    i < j /\ calls[lines[i]].kind = "download" /\ calls[lines[j]].kind = "download" =>
      lines[i] < lines[j] /\ ~Active(lines[i])

\* As long as the runtime lives, it is busy with a run exactly while one is
\* under way, however that run fails; and never with two.
BusyWhileRunning ==
  LET runs == {c \in DOMAIN calls : calls[c].kind = "run" /\ Active(c)} IN
    Cardinality(runs) <= 1 /\ (~aborted => (running <=> runs # {}))

\* A generation that failed in the making, and one that is disposed of, leaves
\* no channel open, and nothing was typed by the first; from the abort on
\* nobody waits, whatever the guest still answers.
NothingLeft ==
  /\ disposed => open = {}
  /\ aborted => \A c \in DOMAIN calls : ~Active(c)
  /\ opening = 0 => open = {} /\ lines = <<>>
=============================================================================
