---------------------------- MODULE ClientConfig ----------------------------
(***************************************************************************)
(* How rai takes over the configuration of an agent client and gives it    *)
(* back: rai configure and unconfigure for Codex (rai/codex_configure.go,  *)
(* rai/codex_restore.go, rai/codex_desktop.go) and for the other clients   *)
(* (rai/agent_config_command.go, rai/client_config_file.go,                *)
(* rai/client_config_restore.go). The user edits the same files at any     *)
(* time, a write can fail, and the command can be killed between any two   *)
(* of its writes.                                                          *)
(*                                                                         *)
(* A configuration file is absent or a document: a value for every field,  *)
(* "-" where the field is missing. "u" is what the user had at first, "e"  *)
(* a later edit; what rai installs carries the version of the profile and  *)
(* of the local proxy it was written for. Parsing and rendering TOML, JSON *)
(* and YAML is the identity on documents, except that an unchanged         *)
(* document keeps the file's bytes. Next to every file is the journal      *)
(* that restoration works from: the document to go back to and the one rai *)
(* installed.                                                              *)
(***************************************************************************)
EXTENDS Naturals, FiniteSets

CONSTANTS
    Originals,   \* the contents of a file rai finds at first
    Versions,    \* what rai may install, as values of the managed fields
    Clients,     \* "agent" (two files, as Pi and Prime have) and/or "codex" (one)
    Processes,   \* rai commands that can run at once
    MaxCommands, \* bound: commands started
    MaxEdits,    \* bound: edits the user makes
    MaxFaults    \* bound: failed writes and killed commands

(* The endpoint and the credential sent to it are one group; the model is  *)
(* managed by itself; rai never touches the rest.                          *)
Group == {"url", "auth"}
Managed == Group \cup {"model"}
Fields == Managed \cup {"rest"}

ASSUME ClientConfigAssumption ==
    /\ MaxCommands \in Nat /\ MaxEdits \in Nat /\ MaxFaults \in Nat
    /\ Clients \subseteq {"agent", "codex"}
    /\ Versions \cap {"-", "u", "e"} = {}
    /\ Originals \subseteq [Fields -> {"-", "u"}]

VARIABLES
    client,    \* the client being configured
    file,      \* its configuration files
    journal,   \* their recovery records
    temporary, \* Codex only: the record of a temporary desktop switch
    cmd,       \* the rai commands under way
    lock,      \* holder of the client-config lock
    own,       \* history: the files as the user alone would have them
    apart,     \* history: files where the user replaced rai's endpoint or credential
    torn,      \* history: a reconfiguration was cut between its journal and its file
    started, edits, faults

vars == <<client, file, journal, temporary, cmd, lock, own, apart, torn, started, edits, faults>>
fixed == <<client, started, edits>>

Values == {"-", "u", "e"} \cup Versions
Documents == [Fields -> Values]
Absent == [absent |-> TRUE]
None == [absent |-> TRUE]
Empty == [k \in Fields |-> "-"]
Files == IF client = "codex" THEN {1} ELSE {1, 2}
NoRecords == [f \in {1, 2} |-> None]

NoCommand == [op |-> "none", pc |-> "idle", version |-> "-", raw |-> [f \in {1, 2} |-> Absent],
              old |-> NoRecords, at |-> 1, temporary |-> FALSE]

ClientConfigInit ==
    /\ client \in Clients
    /\ file \in [{1, 2} -> Originals \cup {Absent}]
    /\ client = "codex" => file[2] = Absent
    /\ own = file
    /\ journal = NoRecords /\ temporary = None
    /\ cmd = [p \in Processes |-> NoCommand]
    /\ lock = {} /\ apart = {} /\ torn = FALSE
    /\ started = 0 /\ edits = 0 /\ faults = 0

-----------------------------------------------------------------------------
(* Documents. *)

decodeClientConfig(raw) == IF raw = Absent THEN Empty ELSE raw

(* An unchanged document is written back byte for byte.                    *)
render(raw, doc) == IF decodeClientConfig(raw) = doc THEN raw ELSE doc

(* What configure installs: every managed field, over the existing ones.   *)
buildAgentConfig(raw, v) ==
    [k \in Fields |-> IF k \in Managed THEN v ELSE decodeClientConfig(raw)[k]]

(* Mutant of restoreConfiguredClient: each field of the group on its own.  *)
RestoreFieldwise(current, before, after) ==
    [k \in Fields |-> IF before[k] # after[k] /\ current[k] = after[k]
                      THEN before[k] ELSE current[k]]

(* Three-way restoration: a field goes back to what it was only while it   *)
(* still holds what rai installed, and the endpoint and its credential     *)
(* only together.                                                          *)
restoreConfiguredClient(current, before, after) ==
    [k \in Fields |->
        IF /\ before[k] # after[k]
           /\ current[k] = after[k]
           /\ k \in Group => \A g \in Group : current[g] = after[g]
        THEN before[k] ELSE current[k]]

ThreeWay(raw, j) ==
    render(raw, restoreConfiguredClient(decodeClientConfig(raw), decodeClientConfig(j.before),
                                        decodeClientConfig(j.after)))

(* Mutant of Baseline: reconfiguring takes the present file as baseline.   *)
BaselinePresent(raw, j) == raw

(* What a new journal restores: the file itself, or, when rai already      *)
(* manages it, what restoration would give.                                *)
Baseline(raw, j) ==
    IF j = None THEN raw
    ELSE IF raw = j.after THEN j.before ELSE ThreeWay(raw, j)

(* What unconfigure writes.                                                *)
Restored(raw, j) == IF raw = j.after THEN j.before ELSE ThreeWay(raw, j)

-----------------------------------------------------------------------------
(* Commands. *)

Fault == faults < MaxFaults /\ faults' = faults + 1
Step(p, pc) == cmd' = [cmd EXCEPT ![p].pc = pc]
Leave(p) == cmd' = [cmd EXCEPT ![p] = NoCommand] /\ lock' = lock \ {p}

CodexFree == client = "codex" => \A q \in Processes : cmd[q].pc \in {"idle", "await"}

(* A command loads and parses the files, then builds and previews the      *)
(* merge and asks for confirmation. Commands for Codex take no lock; they  *)
(* are run one at a time, except that a desktop switch waits for its       *)
(* restore while others run. Configuring is refused while one is pending.  *)
Start(p, o, v) ==
    /\ cmd[p].pc = "idle" /\ started < MaxCommands
    /\ CodexFree
    /\ o = "desktop" => client = "codex"
    /\ o \in {"configure", "desktop"} => temporary = None
    /\ started' = started + 1
    /\ cmd' = [cmd EXCEPT ![p] = [NoCommand EXCEPT !.op = o, !.pc = "confirm", !.version = v, !.raw = file,
                  !.temporary = o = "desktop" \/ (o = "unconfigure" /\ temporary # None)]]
    /\ UNCHANGED <<client, file, journal, temporary, lock, own, apart, torn, edits, faults>>

configureAgent(p) == \E v \in Versions : Start(p, "configure", v)
temporaryCodex(p) == \E v \in Versions : Start(p, "desktop", v)
unconfigureAgent(p) == Start(p, "unconfigure", "-")

(* After confirmation the client's lock is taken and the files are         *)
(* compared with what was loaded; an edit meanwhile, a declined            *)
(* confirmation or a proxy that does not start ends the command.           *)
Confirm(p) ==
    /\ cmd[p].pc = "confirm" /\ (client = "agent" => lock = {})
    /\ file = cmd[p].raw
    /\ lock' = IF client = "agent" THEN {p} ELSE lock
    /\ Step(p, "plan")
    /\ UNCHANGED <<fixed, file, journal, temporary, own, apart, torn, faults>>

Decline(p) ==
    /\ cmd[p].pc \in {"confirm", "plan"}
    /\ Leave(p)
    /\ UNCHANGED <<fixed, file, journal, temporary, own, apart, torn, faults>>

(* The record a command works with: the temporary one for a desktop switch *)
(* and, before any other, for unconfigure.                                 *)
Record(p, f) == IF cmd[p].temporary THEN temporary ELSE journal[f]

SetRecord(p, f, r) ==
    IF cmd[p].temporary THEN temporary' = r /\ UNCHANGED journal
    ELSE journal' = [journal EXCEPT ![f] = r] /\ UNCHANGED temporary

(* saveClientConfig and saveCodexManaged: read the old records and compare *)
(* the files once more.                                                    *)
PlanConfigure(p) ==
    /\ cmd[p].pc = "plan" /\ cmd[p].op # "unconfigure"
    /\ file = cmd[p].raw
    /\ cmd[p].op = "desktop" => temporary = None
    /\ cmd' = [cmd EXCEPT ![p].pc = "journal",
                          ![p].old = [f \in {1, 2} |-> IF cmd[p].op = "desktop" THEN None ELSE journal[f]]]
    /\ UNCHANGED <<fixed, file, journal, temporary, lock, own, apart, torn, faults>>

(* An edit made since the comparison is lost: the history notes the files. *)
Overwrites(lost) ==
    /\ torn' = (torn \/ lost # {})
    /\ apart' = apart \ lost

After(p, f) == buildAgentConfig(cmd[p].raw[f], cmd[p].version)

(* Intent first: the journal is written (after a backup of the original).  *)
WriteJournal(p) ==
    /\ cmd[p].pc = "journal"
    /\ LET f == cmd[p].at
       IN SetRecord(p, f, [before |-> Baseline(cmd[p].raw[f], cmd[p].old[f]), after |-> After(p, f)])
    /\ Step(p, "file")
    /\ UNCHANGED <<fixed, file, lock, own, apart, torn, faults>>

Next1(p) == IF cmd[p].at + 1 \in Files THEN "more" ELSE "last"

(* Then the file is replaced; an edit since the comparison is overwritten, *)
(* which the history counts as the user's loss.                            *)
WriteFile(p) ==
    /\ cmd[p].pc = "file"
    /\ LET f == cmd[p].at
       IN /\ file' = [file EXCEPT ![f] = After(p, f)]
          /\ own' = IF file[f] = cmd[p].raw[f] THEN own
                    ELSE [own EXCEPT ![f] = IF cmd[p].old[f] = None THEN cmd[p].raw[f] ELSE @]
    /\ Overwrites({f \in {cmd[p].at} : file[f] # cmd[p].raw[f]})
    /\ IF Next1(p) = "more"
       THEN cmd' = [cmd EXCEPT ![p].pc = "journal", ![p].at = @ + 1] /\ UNCHANGED lock
       ELSE IF cmd[p].op = "desktop" THEN Step(p, "await") /\ UNCHANGED lock
       ELSE Leave(p)
    /\ UNCHANGED <<fixed, journal, temporary, faults>>

(* A journal or file cannot be written: what was written is rolled back,   *)
(* last file first. Codex only puts its journal back.                      *)
WriteFails(p) ==
    /\ cmd[p].pc \in {"journal", "file"} /\ Fault
    /\ Step(p, IF client = "codex" THEN "undoJournal" ELSE "undoFile")
    /\ UNCHANGED <<fixed, file, journal, temporary, lock, own, apart, torn>>

UndoFile(p) ==
    /\ cmd[p].pc = "undoFile"
    /\ file' = [file EXCEPT ![cmd[p].at] = cmd[p].raw[cmd[p].at]]
    /\ Overwrites({f \in {cmd[p].at} : file[f] \notin {cmd[p].raw[f], After(p, f)}})
    /\ Step(p, "undoJournal")
    /\ UNCHANGED <<fixed, journal, temporary, lock, own, faults>>

UndoJournal(p) ==
    /\ cmd[p].pc = "undoJournal"
    /\ SetRecord(p, cmd[p].at, cmd[p].old[cmd[p].at])
    /\ IF cmd[p].at = 1 THEN Leave(p)
       ELSE cmd' = [cmd EXCEPT ![p].pc = "undoFile", ![p].at = @ - 1] /\ UNCHANGED lock
    /\ UNCHANGED <<fixed, file, own, apart, torn, faults>>

-----------------------------------------------------------------------------
(* restoreAgentConfig and restoreCodexManaged: plan every file that has a  *)
(* record, compare with what was loaded, replace the files, remove the     *)
(* records. Without any record there is nothing to restore.                *)
PlanRestore(p) ==
    /\ cmd[p].pc = "plan" /\ cmd[p].op = "unconfigure"
    /\ file = cmd[p].raw
    /\ \E f \in Files : Record(p, f) # None
    /\ cmd' = [cmd EXCEPT ![p].pc = "restore",
                          ![p].old = [f \in {1, 2} |-> IF f \in Files THEN Record(p, f) ELSE None]]
    /\ UNCHANGED <<fixed, file, journal, temporary, lock, own, apart, torn, faults>>

(* "restore", typed in the terminal that made the desktop switch.          *)
RestoreDesktop(p) ==
    /\ cmd[p].pc = "await" /\ CodexFree
    /\ IF temporary = None THEN cmd' = [cmd EXCEPT ![p] = NoCommand]
       ELSE cmd' = [cmd EXCEPT ![p].pc = "restore", ![p].raw = file, ![p].at = 1,
                               ![p].old = [f \in {1, 2} |-> IF f = 1 THEN temporary ELSE None]]
    /\ UNCHANGED <<fixed, file, journal, temporary, lock, own, apart, torn, faults>>

(* Codex's file is written even where there was none: empty, not removed.  *)
Written(r) == IF client = "codex" THEN decodeClientConfig(r) ELSE r

RestoreFile(p) ==
    /\ cmd[p].pc = "restore"
    /\ LET f == cmd[p].at
           j == cmd[p].old[f]
       IN /\ file' = IF j = None THEN file
                     ELSE [file EXCEPT ![f] = Written(Restored(cmd[p].raw[f], j))]
          /\ Overwrites(IF j # None /\ file[f] # cmd[p].raw[f] THEN {f} ELSE {})
    /\ cmd' = [cmd EXCEPT ![p].pc = IF Next1(p) = "more" THEN "restore" ELSE "remove",
                          ![p].at = IF Next1(p) = "more" THEN @ + 1 ELSE 1]
    /\ UNCHANGED <<fixed, journal, temporary, lock, own, faults>>

(* A file cannot be replaced: the earlier ones go back to what was loaded  *)
(* and the records stay.                                                   *)
RestoreFails(p) ==
    /\ cmd[p].pc = "restore" /\ Fault
    /\ LET back == {f \in Files : f < cmd[p].at /\ cmd[p].old[f] # None}
       IN /\ file' = [f \in {1, 2} |-> IF f \in back THEN cmd[p].raw[f] ELSE file[f]]
          /\ Overwrites({f \in back : file[f] # Written(Restored(cmd[p].raw[f], cmd[p].old[f]))})
    /\ Leave(p)
    /\ UNCHANGED <<fixed, journal, temporary, own>>

RemoveJournal(p) ==
    /\ cmd[p].pc = "remove"
    /\ IF cmd[p].temporary THEN temporary' = None /\ UNCHANGED journal
       ELSE journal' = [journal EXCEPT ![cmd[p].at] = None] /\ UNCHANGED temporary
    /\ IF Next1(p) = "more" THEN cmd' = [cmd EXCEPT ![p].at = @ + 1] /\ UNCHANGED lock
       ELSE Leave(p)
    /\ UNCHANGED <<fixed, file, own, apart, torn, faults>>

(* The command is killed; the operating system drops its lock. Cut after   *)
(* the journal and before the file, or while both are put back, a          *)
(* reconfiguration leaves a record that does not describe what an earlier  *)
(* one installed.                                                          *)
Kill(p) ==
    /\ cmd[p].pc \notin {"idle", "confirm", "plan"} /\ Fault
    /\ torn' = (torn \/ LET f == cmd[p].at IN
                    cmd[p].pc \in {"file", "undoFile", "undoJournal"} /\ cmd[p].old[f] # None)
    /\ Leave(p)
    /\ UNCHANGED <<fixed, file, journal, temporary, own, apart>>

(* The user edits one field of an existing file, or creates it.            *)
Edit(f, k, v) ==
    /\ edits < MaxEdits /\ edits' = edits + 1
    /\ f \in Files /\ decodeClientConfig(file[f])[k] # v
    /\ file' = [file EXCEPT ![f] = [decodeClientConfig(@) EXCEPT ![k] = v]]
    /\ own' = [own EXCEPT ![f] = [decodeClientConfig(@) EXCEPT ![k] = v]]
    /\ apart' = IF k \in Group /\ \E g \in Group : decodeClientConfig(file[f])[g] \in Versions
                THEN apart \cup {f} ELSE apart
    /\ UNCHANGED <<client, journal, temporary, cmd, lock, torn, started, faults>>

ClientConfigNext ==
    \/ \E p \in Processes :
         \/ configureAgent(p) \/ temporaryCodex(p) \/ unconfigureAgent(p)
         \/ Confirm(p) \/ Decline(p) \/ PlanConfigure(p) \/ WriteJournal(p) \/ WriteFile(p)
         \/ WriteFails(p) \/ UndoFile(p) \/ UndoJournal(p)
         \/ PlanRestore(p) \/ RestoreDesktop(p) \/ RestoreFile(p) \/ RestoreFails(p)
         \/ RemoveJournal(p) \/ Kill(p)
    \/ \E f \in {1, 2}, k \in Fields, v \in {"-", "e"} : Edit(f, k, v)

ClientConfig == ClientConfigInit /\ [][ClientConfigNext]_vars

-----------------------------------------------------------------------------
ClientConfigTypeOK ==
    /\ \A f \in {1, 2} : /\ file[f] = Absent \/ file[f] \in Documents
                         /\ journal[f] = None \/ journal[f].after \in Documents
    /\ Cardinality(lock) <= 1
    /\ \A p \in lock : cmd[p].pc # "idle"
    /\ \A p \in Processes : cmd[p].at \in {1, 2}

(* No command is writing and no record says that the file is rai's.        *)
GivenBack(f) ==
    /\ \A p \in Processes : cmd[p].pc \in {"idle", "confirm"}
    /\ journal[f] = None /\ temporary = None

(* After unconfigure, a failed or killed command or any sequence of them,  *)
(* a file that rai no longer keeps a record of reads as if rai had never   *)
(* been there: the user's first values and later edits, and nothing of     *)
(* rai's. Left out are a group the user took apart while rai managed it,   *)
(* and the cuts the history records as torn.                               *)
FilesGivenBack ==
    ~torn => \A f \in Files : GivenBack(f) =>
        \A k \in Fields : \/ k \in Group /\ f \in apart
                          \/ decodeClientConfig(file[f])[k] = decodeClientConfig(own[f])[k]

(* An endpoint the user edited is never combined with the credential that  *)
(* was there before rai: once the group is taken apart, restoration leaves *)
(* all of it alone.                                                        *)
NoForeignCredential ==
    \A f \in apart : decodeClientConfig(file[f])["auth"] # "u"

(* A client file that did not exist before is gone again after restoring,  *)
(* unless the user created it (the clients other than Codex).              *)
NoLeftovers ==
    ~torn /\ client = "agent" =>
        \A f \in Files : GivenBack(f) /\ own[f] = Absent => file[f] = Absent

(* What rai was lent it gives back: the values of every file, and the      *)
(* absence of a file that was not there.                                   *)
NothingLeftBehind == ClientConfigTypeOK /\ FilesGivenBack /\ NoLeftovers
=============================================================================
