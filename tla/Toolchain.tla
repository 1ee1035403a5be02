----------------------------- MODULE Toolchain -----------------------------
(***************************************************************************)
(* The linker, the driver testvm and the virtual machine together: a shell *)
(* script runs linkx20 any number of times and then testvm on a file that  *)
(* the disk has by then.  What writeOutput writes is what                  *)
(* loadExecutableFile reads.                                               *)
(***************************************************************************)
EXTENDS Testvm, LinkX20

tcvars == <<memory, vm, cpu, freed, main, ret, traced, process, client, exitCode, shown,
            disk, script, headers, link, exits>>

\* The file of a name as the loader reads it.
Readable(name) ==
    IF name \notin DOMAIN disk
    THEN [found |-> FALSE, insymbols |-> <<>>, outwords |-> 0, length |-> 0, code |-> <<>>]
    ELSE LET f == disk[name]
         IN [found |-> TRUE, insymbols |-> f.insyms, outwords |-> 5 * Len(f.outsyms),
             length |-> Len(f.code), code |-> f.code]

LinkStep == LNext /\ UNCHANGED <<tvars>>

RunTestvm ==
    /\ script # <<>> /\ "program" \in DOMAIN Head(script)
    /\ mainStart([file |-> Readable(Head(script).program), args |-> Head(script).args])
    /\ script' = Tail(script)
    /\ UNCHANGED <<disk, headers, link, exits>>

TcInit == TInit /\ LInit
TcNext ==
    \/ LinkStep
    \/ RunTestvm
    \/ MainStep /\ UNCHANGED lvars
    \/ LibraryStep /\ UNCHANGED lvars
TcSpec == TcInit /\ [][TcNext]_tcvars

\* The shell, the linker, testvm's main thread and every core are scheduled.
TcFairSpec ==
    /\ TcSpec
    /\ WF_tcvars(LinkStep) /\ WF_tcvars(RunTestvm) /\ WF_tcvars(MainStep /\ UNCHANGED lvars)
    /\ WF_tcvars(LibraryStep /\ (createCore \/ joinAll) /\ UNCHANGED lvars)
    /\ \A c \in Core : WF_tcvars(LibraryStep /\ CoreStep(c) /\ UNCHANGED lvars)
-----------------------------------------------------------------------------
\* The script comes to its end: every linking ends, and testvm exits unless the
\* process dies.
Terminates ==
    <>[](script = <<>> /\ (client.at = "shell" \/ exitCode # Running \/ process # "running"))

\* testvm loads exactly what the linker has called an executable; what it could
\* not complete is an object file, which the loader refuses.
LinkedIsLoadable ==
    [][mainLoad /\ exits # <<>> /\ Last(exits) = 0 =>
          (ret'.value = 1) = \E n \in DOMAIN disk : n[2] = "exe" /\ Readable(n) = client.line.file]_tcvars
=============================================================================
