------------------------------- MODULE MCHosts --------------------------------
(* What runs applications, sessions, editors and tools, one at a time: `part'  *)
(* says which of them a behaviour is about, while the others rest.             *)
EXTENDS Integers, Sequences, TLC

CONSTANTS Launches, Versions, Window, SessionIds, RunTime, MaxGrants,    \* of the runtime
          MaxCommands, MaxMessages,                                      \* of the controller
          Callers, Ids, MaxSessions, Ttl, IdleTime, MaxEntries,          \* of the consoles
          Askers, Classes, Approvable, MaxTtl, Encrypted, MaxTime, MaxRequests, MaxLogins,   \* of the broker
          Texts, MaxReads,                                               \* of the editor
          Chars, Space, Words, MaxLine, MaxHistory,                      \* of the shell
          None

VARIABLES part,
          files, runClock, phase, generation, session, timer, development, rows, launch,
          toWorker, granted, lease, admitted,
          state, pending, probe, ids, app, toApp, toHost,
          sessions, entries, request, idleClock, disposed,
          kek, caps, chain, call, clock, made, logins, answered,
          disk, shown, content, saved, changed, loaded, reloading, reads, save, draft, bound,
          typed, seen, missed,
          file, patch, result,
          buffer, cursor, history, index, search, busy, aborted, completing, screen, raced

Runtime == INSTANCE AppRuntime WITH
    clock <- runClock, Sessions <- SessionIds, MaxTime <- RunTime, MaxMessages <- MaxGrants

Controller == INSTANCE Lifecycle WITH MaxRequests <- MaxCommands

Consoles == INSTANCE SessionHost WITH clock <- idleClock, MaxTime <- IdleTime

\* The audit log is told to do one append at a time.
Broker == INSTANCE Custody WITH Callers <- Askers, Overlap <- FALSE

Editor == INSTANCE FileBuffer WITH phase <- shown

-------------------------------------------------------------------------------
(* Files of up to three lines; patches of one section of up to three lines,    *)
(* and of two sections of one line, of which the second may have a header or   *)
(* the end-of-file mark.                                                       *)

Text(t, w) == [text |-> t, space |-> w]
Lines == {Text("a", "none"), Text("a", "trailing"), Text("b", "none"), Text("", "none")}
Ops == [mark : {"add", "del", "keep", "bare"}, line : Lines \ {Text("a", "trailing")}]
Marked(ops) == {i \in DOMAIN ops : ops[i].mark # "add"}
Section(ops, def, eof) == [ops |-> ops, def |-> def, eof |-> eof]

Sections == {Section(ops, None, FALSE) : ops \in {o \in UNION {[1..n -> Ops] : n \in 1..3} :
                                                    \E i, j \in 1..3 : Marked(o) \subseteq {i, j}}}
OneLine == {<<op>> : op \in Ops}
Patches == {<<s>> : s \in Sections}
           \cup ([ops : OneLine, def : {None}, eof : {FALSE}]
                 \X [ops : OneLine, def : {None, Text("b", "none")}, eof : BOOLEAN])

\* One letter away, or a word.
Edits(s, t) == IF s = t THEN 0 ELSE IF s # "" /\ t # "" THEN 1 ELSE 3

Tool == INSTANCE Patch WITH
    Files <- UNION {[1..n -> Lines] : n \in 1..3}, Patches <- Patches,
    Blank <- "", PathText <- "path", Distance <- Edits

Shell == INSTANCE Terminal

\* Words with a common beginning, and one without.
Completions == {<<"a", "b">>, <<"a", "a">>, <<"b", "a">>}
-------------------------------------------------------------------------------

runtime == <<files, runClock, phase, generation, session, timer, development, rows, launch,
             toWorker, granted, lease, admitted>>
controller == <<state, pending, probe, ids, app, toApp, toHost>>
consoles == <<sessions, entries, request, idleClock, disposed>>
broker == <<kek, caps, chain, call, clock, made, logins, answered>>
editor == <<disk, shown, content, saved, changed, loaded, reloading, reads, save, draft, bound,
            typed, seen, missed>>
tool == <<file, patch, result>>
shell == <<buffer, cursor, history, index, search, busy, aborted, completing, screen, raced>>

ASSUME HostsAssumption ==
       /\ Runtime!AppRuntimeAssumption /\ Controller!LifecycleAssumption
       /\ Consoles!SessionHostAssumption /\ Broker!CustodyAssumption /\ Editor!FileBufferAssumption
       /\ Shell!TerminalAssumption

Init ==
    /\ part \in {"runtime", "controller", "consoles", "broker", "editor", "tool", "shell"}
    /\ Runtime!Init /\ (part # "runtime" => files = CHOOSE v \in Versions : TRUE)   \* one state to rest in
    /\ Controller!Init /\ Consoles!Init /\ Broker!Init /\ Shell!Init
    /\ Editor!Init /\ (part # "editor" => disk = CHOOSE t \in Texts : TRUE)
    /\ IF part = "tool" THEN Tool!Init ELSE file = None /\ patch = None /\ result = None

Next ==
    /\ UNCHANGED part
    /\ \/ part = "runtime" /\ Runtime!Next /\ UNCHANGED <<controller, consoles, broker, editor, tool, shell>>
       \/ part = "controller" /\ Controller!Next /\ UNCHANGED <<runtime, consoles, broker, editor, tool, shell>>
       \/ part = "consoles" /\ Consoles!Next /\ UNCHANGED <<runtime, controller, broker, editor, tool, shell>>
       \/ part = "broker" /\ Broker!Next /\ UNCHANGED <<runtime, controller, consoles, editor, tool, shell>>
       \/ part = "editor" /\ Editor!Next /\ UNCHANGED <<runtime, controller, consoles, broker, tool, shell>>
       \/ part = "tool" /\ Tool!Apply /\ UNCHANGED <<runtime, controller, consoles, broker, editor, shell>>
       \/ part = "shell" /\ Shell!Next /\ UNCHANGED <<runtime, controller, consoles, broker, editor, tool>>

Spec == Init /\ [][Next]_<<part, runtime, controller, consoles, broker, editor, tool, shell>>

\* The properties of the modules, each with the module's type invariant; the
\* application's page also serves only what was admitted.
OneAdmittedSession == part = "runtime" => Runtime!TypeOK /\ Runtime!OneAdmittedSession /\ Runtime!ServesAdmitted
SettledStateIsTrue == part = "controller" => Controller!TypeOK /\ Controller!SettledStateIsTrue
OneCommandPerSession == part = "consoles" => Consoles!TypeOK /\ Consoles!OneCommandPerSession
AnswersAudited == part = "broker" => Broker!TypeOK /\ Broker!AnswersAudited
TypedTextKept ==
    part = "editor" => Editor!TypeOK /\ Editor!TypedTextKept /\ Editor!ChangesShow
RemovesWhatItNames == part = "tool" => Tool!TypeOK /\ Tool!RemovesWhatItNames
ScreenShowsLine == part = "shell" => Shell!TypeOK /\ Shell!ScreenShowsLine
===============================================================================
