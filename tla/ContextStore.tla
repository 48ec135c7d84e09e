---------------------------- MODULE ContextStore ----------------------------
(***************************************************************************)
(* The saved contexts: one YAML file (internal/cliconfig) that the         *)
(* `refresh use` and `refresh context add | remove` commands load, change  *)
(* in memory and save through a temporary file and a rename.  Several      *)
(* processes do so at once, with no lock; any of them may crash.           *)
(***************************************************************************)
EXTENDS Integers, FiniteSets

CONSTANTS
    Shells,             \* processes that may run context commands
    ContextNames,
    Targets,            \* what a context points at: cluster, region and profile
    MaxContextCommands  \* bound: commands started

NoName == "none"        \* the empty string: no current, no previous context
Swap == "-"

ASSUME ContextStoreAssumption ==
    NoName \notin ContextNames /\ MaxContextCommands \in Nat

VARIABLES
    file,   \* the file on disk; a missing one reads as EmptyFile
    shell,  \* process -> where its command stands
    loaded, \* process -> the document it read
    doc,    \* process -> the document it is about to save
    temp,   \* process -> its temporary file: "none", "part" or "whole"
    about,  \* process -> the context it was told to add or remove (history)
    typed   \* commands started so far

contextVars == <<file, shell, loaded, doc, temp, about, typed>>

Documents ==
    UNION {[current : ContextNames \cup {NoName}, previous : ContextNames \cup {NoName},
            contexts : [some -> Targets]] : some \in SUBSET ContextNames}

EmptyFile == [current |-> NoName, previous |-> NoName, contexts |-> [n \in {} |-> 0]]
Torn == [current |-> "torn", previous |-> "torn", contexts |-> [n \in {} |-> 0]]

-----------------------------------------------------------------------------
(* The edits, on a document in memory *)

Entry(d, n) == {d.contexts[m] : m \in DOMAIN d.contexts \cap {n}}

UseContext(d, name) ==
    IF name = Swap THEN [d EXCEPT !.current = d.previous, !.previous = d.current]
    ELSE [d EXCEPT !.current = name,
                   !.previous = IF d.current # name THEN d.current ELSE @]

CanUse(d, name) == IF name = Swap THEN d.previous # NoName ELSE name \in DOMAIN d.contexts

\* Mutant: every add starts from an empty map.
SetContextFresh(d, name, target) == [d EXCEPT !.contexts = [n \in {name} |-> target]]

SetContext(d, name, target) ==
    [d EXCEPT !.contexts = [n \in DOMAIN @ \cup {name} |-> IF n = name THEN target ELSE @[n]]]

\* Mutant: only the current pointer is cleared.
RemoveContextKeepsPrevious(d, name) ==
    [d EXCEPT !.contexts = [n \in DOMAIN @ \ {name} |-> @[n]],
              !.current = IF @ = name THEN NoName ELSE @]

RemoveContext(d, name) ==
    [d EXCEPT !.contexts = [n \in DOMAIN @ \ {name} |-> @[n]],
              !.current = IF @ = name THEN NoName ELSE @,
              !.previous = IF @ = name THEN NoName ELSE @]

-----------------------------------------------------------------------------
(* One command *)

GoesTo(p, where) == shell' = [shell EXCEPT ![p] = where]

Load(p) ==
    /\ shell[p] = "idle" /\ typed < MaxContextCommands
    /\ typed' = typed + 1
    /\ loaded' = [loaded EXCEPT ![p] = file]
    /\ GoesTo(p, IF file = Torn THEN "idle" ELSE "edit")
    /\ UNCHANGED <<file, doc, temp, about>>

Edited(p, d, name) ==
    /\ doc' = [doc EXCEPT ![p] = d]
    /\ about' = [about EXCEPT ![p] = name]
    /\ GoesTo(p, "write")
    /\ UNCHANGED <<file, loaded, temp, typed>>

\* `use` needs a saved context; its name is an argument or is picked from a prompt,
\* which may answer anything.
RunUse(p) ==
    /\ shell[p] = "edit" /\ DOMAIN loaded[p].contexts # {}
    /\ \E name \in ContextNames \cup {Swap} :
         CanUse(loaded[p], name) /\ Edited(p, UseContext(loaded[p], name), NoName)

\* A context may be saved under the name "-", which --use then takes for the swap.
ContextAdd(p) ==
    /\ shell[p] = "edit"
    /\ \E name \in ContextNames, target \in Targets, use \in BOOLEAN :
         LET set == SetContext(loaded[p], name, target)
         IN  /\ use => CanUse(set, name)
             /\ Edited(p, IF use THEN UseContext(set, name) ELSE set, name)

ContextRemove(p) ==
    /\ shell[p] = "edit"
    /\ \E name \in DOMAIN loaded[p].contexts :
         Edited(p, RemoveContext(loaded[p], name), name)

\* A command that is over leaves nothing in memory.
Forgets(p) ==
    /\ shell' = [shell EXCEPT ![p] = "idle"]
    /\ loaded' = [loaded EXCEPT ![p] = EmptyFile] /\ doc' = [doc EXCEPT ![p] = EmptyFile]
    /\ temp' = [temp EXCEPT ![p] = "none"] /\ about' = [about EXCEPT ![p] = NoName]

\* Save: the temporary file is created and written, then renamed over the file.
WriteTemp(p) ==
    /\ shell[p] = "write"
    /\ \/ temp[p] = "none" /\ temp' = [temp EXCEPT ![p] = "part"] /\ UNCHANGED shell
       \/ temp[p] = "part" /\ temp' = [temp EXCEPT ![p] = "whole"] /\ GoesTo(p, "rename")
    /\ UNCHANGED <<file, loaded, doc, about, typed>>

RenameTemp(p) ==
    /\ shell[p] = "rename"
    /\ file' = IF temp[p] = "whole" THEN doc[p] ELSE Torn
    /\ Forgets(p)
    /\ UNCHANGED typed

\* The command is refused (nothing to use, an unknown name, no answer to the prompt)
\* or a step of Save fails and takes the temporary file with it; or the process
\* crashes, and the temporary file stays behind under a name nobody reads.
Fail(p) ==
    /\ shell[p] \in {"edit", "write", "rename"}
    /\ Forgets(p)
    /\ UNCHANGED <<file, typed>>

ContextStep(p) == \/ RunUse(p) \/ ContextAdd(p) \/ ContextRemove(p)
                  \/ WriteTemp(p) \/ RenameTemp(p)

ContextStoreInit ==
    /\ file = EmptyFile
    /\ shell = [p \in Shells |-> "idle"]
    /\ loaded = [p \in Shells |-> EmptyFile] /\ doc = [p \in Shells |-> EmptyFile]
    /\ temp = [p \in Shells |-> "none"] /\ about = [p \in Shells |-> NoName]
    /\ typed = 0

ContextStoreNext == \E p \in Shells : Load(p) \/ ContextStep(p) \/ Fail(p)

-----------------------------------------------------------------------------
(* Properties *)

ContextStoreTypeOK ==
    /\ file \in Documents
    /\ shell \in [Shells -> {"idle", "edit", "write", "rename"}]
    /\ loaded \in [Shells -> Documents] /\ doc \in [Shells -> Documents]
    /\ temp \in [Shells -> {"none", "part", "whole"}]
    /\ about \in [Shells -> ContextNames \cup {NoName}]
    /\ typed \in 0..MaxContextCommands

\* The file is whole whatever crashes, and its two pointers name saved contexts,
\* never the same one twice, whichever processes saved over each other
\* (Save, Use, Remove).
StoreReadable ==
    /\ file # Torn
    /\ {file.current, file.previous} \subseteq DOMAIN file.contexts \cup {NoName}
    /\ file.current = file.previous => file.current = NoName

\* A saved context changes or vanishes only when the command being saved was told to
\* add or remove that very context, or when another process changed it after that
\* command had loaded the file: a lost update takes an overlap of two commands, and
\* no command alone touches a context it was not told to (Load, Set, Remove, Save).
LossNeedsOverlap ==
    [][\A n \in ContextNames :
         Entry(file', n) # Entry(file, n) =>
            \E p \in Shells : /\ shell[p] = "rename" /\ shell'[p] = "idle"
                              /\ about[p] = n \/ Entry(loaded[p], n) # Entry(file, n)]_contextVars

=============================================================================
