------------------------------ MODULE UserFiles ------------------------------
(***************************************************************************)
(* The files Nook writes where users and editors write too: config.toml,   *)
(* nook.toml, nook.local.toml and an exported certificate.  Each is        *)
(* checked, written next to itself under a name of its own and moved into  *)
(* place; no lock is taken.  The one file modelled holds a value per       *)
(* setting, as config.toml does.                                           *)
(***************************************************************************)
EXTENDS Naturals

CONSTANTS
    Writers,    \* processes running nook
    Settings    \* what `nook config set` sets

VARIABLES
    content,    \* what the path holds
    writer,     \* the command each process runs
    litter      \* a killed process left its temporary file

fileVars == <<content, writer, litter>>

Configs == [Settings -> 0..1]
Defaults == [s \in Settings |-> 0]
File(values) == [kind |-> "config", values |-> values]
Other(kind) == [kind |-> kind, values |-> Defaults]
\* Nothing, a symbolic link or a directory, or text that is no configuration
Absent == Other("absent")
Irregular == Other("irregular")
Broken == Other("broken")
Contents == {Absent, Irregular, Broken} \cup {File(c) : c \in Configs}

\* force: may replace a file; draft: what it is about to write;
\* temporary: its temporary file exists
NoCommand == [at |-> "idle", force |-> FALSE, draft |-> Defaults, temporary |-> FALSE]

FilesTypeOK ==
    /\ content \in Contents
    /\ writer \in [Writers -> [at : {"idle", "check", "create", "publish", "clean"},
                               force : BOOLEAN, draft : Configs, temporary : BOOLEAN]]
    /\ litter \in BOOLEAN

Advance(w, step) == writer' = [writer EXCEPT ![w].at = step]
EndWrite(w) == writer' = [writer EXCEPT ![w] = NoCommand]

-----------------------------------------------------------------------------
\* `config init`, `init` and `ca export` make their contents up
BeginNew(w, force) ==
    /\ writer[w].at = "idle"
    /\ writer' = [writer EXCEPT ![w] = [NoCommand EXCEPT !.at = "check", !.force = force]]
    /\ UNCHANGED <<content, litter>>

\* load_global: no file is the default configuration
Loaded == content.values

\* `config set` reads the configuration, changes one setting and writes it all
\* back with force.  A file that does not parse ends it.
BeginSet(w, s) ==
    /\ writer[w].at = "idle"
    /\ content # Broken
    /\ \E value \in 0..1 :
         writer' = [writer EXCEPT ![w] =
                      [NoCommand EXCEPT !.at = "check", !.force = TRUE,
                                        !.draft = [Loaded EXCEPT ![s] = value]]]
    /\ UNCHANGED <<content, litter>>

\* symlink_metadata: a file is only replaced with force, and if it is regular
CheckPath(w) ==
    /\ writer[w].at = "check"
    /\ IF content = Absent \/ (writer[w].force /\ content # Irregular)
       THEN Advance(w, "create")
       ELSE EndWrite(w)
    /\ UNCHANGED <<content, litter>>

\* The temporary file, created, written and synced; on an error it is removed
CreateTemporary(w) ==
    /\ writer[w].at = "create"
    /\ \/ writer' = [writer EXCEPT ![w].at = "publish", ![w].temporary = TRUE]
       \/ EndWrite(w)
    /\ UNCHANGED <<content, litter>>

\* Mutation of PublishFile: without force the file is renamed too.
PublishFileRenamed(w) ==
    /\ writer[w].at = "publish"
    /\ content' = File(writer[w].draft)
    /\ IF writer[w].force THEN EndWrite(w) ELSE Advance(w, "clean")
    /\ UNCHANGED litter

\* replace_file renames; move_new_file on Unix links, which fails if there is
\* anything at the path by now, and leaves the temporary file to be removed.
PublishFile(w) ==
    /\ writer[w].at = "publish"
    /\ IF writer[w].force
       THEN content' = File(writer[w].draft) /\ EndWrite(w)
       ELSE /\ content' = IF content = Absent THEN File(writer[w].draft) ELSE content
            /\ Advance(w, "clean")
    /\ UNCHANGED litter

CleanTemporary(w) ==
    /\ writer[w].at = "clean"
    /\ EndWrite(w)
    /\ UNCHANGED <<content, litter>>

WriterDies(w) ==
    /\ writer[w].at # "idle"
    /\ litter' = (litter \/ writer[w].temporary)
    /\ EndWrite(w)
    /\ UNCHANGED content

\* An editor saves, removes or replaces the file
UserEdits ==
    /\ content' \in Contents \ {content}
    /\ UNCHANGED <<writer, litter>>

-----------------------------------------------------------------------------
FilesInit ==
    /\ content = Absent
    /\ writer = [w \in Writers |-> NoCommand]
    /\ litter = FALSE

FilesNext ==
    \/ \E w \in Writers :
         \/ \E force \in BOOLEAN : BeginNew(w, force)
         \/ \E s \in Settings : BeginSet(w, s)
         \/ CheckPath(w) \/ CreateTemporary(w) \/ PublishFile(w)
         \/ CleanTemporary(w) \/ WriterDies(w)
    \/ UserEdits

FilesSpec == FilesInit /\ [][FilesNext]_fileVars

-----------------------------------------------------------------------------
\* Without --force nothing is replaced, not even what a user or another nook
\* puts at the path between the check and the move: only a user, or a command
\* with force, changes what exists.
NothingClobbered ==
    [][content # Absent /\ content' # content
       => \/ UNCHANGED writer
          \/ \E w \in Writers : writer[w].force /\ writer'[w] # writer[w]]_fileVars
=============================================================================
