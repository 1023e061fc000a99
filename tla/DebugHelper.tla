----------------------------- MODULE DebugHelper -----------------------------
(***************************************************************************)
(* The log levels of the configuration (internal/debug/debug.go): a list   *)
(* of entries, each the level of one component or a top level for those    *)
(* that have none.                                                         *)
(***************************************************************************)
EXTENDS Sequences, SequencesExt

CONSTANT None  \* nil: nothing was set

Components == {"firecracker", "sdk", "containerd"}
Severities == {"debug", "error", "info", "warning"}

\* The entries of log_levels, without the space around them: a severity of
\* "top" or of a component, the output of the VMM, or a text that is neither.
Entries == [of : Components \cup {"top"}, level : Severities]
               \cup [of : {"output", "invalid"}, level : {None}]

ASSUME NoneIsNoSeverity == None \notin Severities

\* A Helper, or None for an error of New.  The four booleans of the top level
\* are one level, as are the levels of the components with their set flags.
Helpers == [level : [Components \cup {"top"} -> Severities \cup {None}], output : BOOLEAN]
ASSUME NoneIsNoHelper == None \notin Helpers

Fresh == [level |-> [of \in Components \cup {"top"} |-> None], output |-> FALSE]

\* Mutant of SetLevel: the last entry wins.
OverridingSetLevel(h, entry) ==
    CASE h = None \/ entry.of = "invalid" -> None
      [] h # None /\ entry.of = "output" -> [h EXCEPT !.output = TRUE]
      [] OTHER -> [h EXCEPT !.level[entry.of] = entry.level]

\* An entry of setLogLevels; a level is set once.
SetLevel(h, entry) ==
    CASE h = None \/ entry.of = "invalid" -> None
      [] h # None /\ entry.of = "output" -> [h EXCEPT !.output = TRUE]
      [] OTHER -> IF h.level[entry.of] = None
                  THEN [h EXCEPT !.level[entry.of] = entry.level]
                  ELSE None

New(entries) == FoldLeft(SetLevel, Fresh, entries)

OrTop(h, of) == IF h.level[of] # None THEN h.level[of] ELSE h.level["top"]

GetFirecrackerLogLevel(h) == OrTop(h, "firecracker")

LogFirecrackerOutput(h) == h.level["top"] = "debug" \/ h.output

GetFirecrackerSDKLogLevel(h) == OrTop(h, "sdk")

\* The debug flag of the shim comes before the top level.
GetFirecrackerContainerdLogLevel(h, shimDebug) ==
    IF h.level["containerd"] = None /\ shimDebug THEN "debug" ELSE OrTop(h, "containerd")
=============================================================================
