--------------------------- MODULE WorkspaceConfig ---------------------------
(***************************************************************************)
(* What `nook run` makes of its configuration: the files of one            *)
(* application (format_version 1) or of a workspace (format_version 2),    *)
(* their local counterparts and the command line, merged field by field,   *)
(* validated, and checked for reference cycles.  The state is what users   *)
(* write; every run of nook is a function of it, compared here with what   *)
(* the documentation says.                                                 *)
(***************************************************************************)
EXTENDS Naturals, Sequences, FiniteSets, SequencesExt

CONSTANTS
    Values,     \* the values users write, by field
    AppIds,     \* the application ids they write
    MaxEdits,   \* bound on the edits made to the initial files
    Unset       \* a field that a file leaves out

Fields == DOMAIN Values

\* The apps of the first manifest, and the fields of a configuration file.
ASSUME ConfigAssumption ==
    /\ {"a", "b", "c"} \subseteq AppIds
    /\ {"name", "command", "port", "lan", "tailscale", "funnel", "env"} \subseteq Fields

VARIABLES
    manifest,   \* nook.toml at the root of the workspace
    override,   \* the entries of nook.local.toml at that root, by id
    files,      \* nook.toml and nook.local.toml of every directory, if version 1
    flags,      \* the options of the command line, RunArgs
    edits

configVars == <<manifest, override, files, flags, edits>>

\* Directories, after canonicalization: a path is a sequence of names
Root == <<"r">>
Directories == {Root, <<"r", "x">>, <<"r", "x", "y">>, <<"r", "z">>, <<"r", "w">>, <<"out">>}

Nothing == [f \in Fields |-> Unset]

-----------------------------------------------------------------------------
(* Names, as sequences of labels.                                          *)

Malformed == {"-"}
Lower(label) == CASE label = "A" -> "a" [] label = "N" -> "n" [] OTHER -> label
Invalid == <<>>

\* normalize_hostname: ASCII case is dropped; .localhost ends every name once
Normalize(name) ==
    LET low == [i \in DOMAIN name |-> Lower(name[i])]
        suffixed == Last(low) = "localhost"
        labels == IF suffixed THEN Front(low) ELSE low
        misplaced == \E i \in 2..Len(low) : low[i] = "localhost"
    IN IF labels = <<>> \/ (misplaced /\ ~suffixed) \/ ToSet(labels) \cap Malformed # {}
       THEN Invalid ELSE labels

-----------------------------------------------------------------------------
(* Merging.                                                                *)

\* merge_project, merge_settings: an environment variable is a field of its own
Override(base, local) ==
    [f \in Fields |-> IF local[f] # Unset THEN local[f] ELSE base[f]]

\* Mutation of MergeRun: --tailscale does not take back a funnel of a file.
MergeRunFunnelStays(layer) ==
    LET funnel == flags.expose # "off" /\ (flags.expose = "funnel" \/ layer["funnel"] = TRUE)
    IN [port |-> IF flags.port # Unset THEN flags.port ELSE layer["port"],
        lan |-> flags.lan = "on" \/ (flags.lan # "off" /\ layer["lan"] = TRUE),
        funnel |-> funnel,
        tailscale |-> /\ flags.expose # "off"
                      /\ funnel \/ flags.expose = "serve" \/ layer["tailscale"] = TRUE,
        command |-> CASE flags.command -> "cli"
                      [] ~flags.command /\ layer["command"] # Unset -> layer["command"]
                      [] OTHER -> IF flags.runner THEN "empty" ELSE "missing"]

\* merge_run.  "port" stands for every option with a plain value.
MergeRun(layer) ==
    LET funnel == /\ flags.expose \notin {"off", "serve"}
                  /\ flags.expose = "funnel" \/ layer["funnel"] = TRUE
    IN [port |-> IF flags.port # Unset THEN flags.port ELSE layer["port"],
        lan |-> flags.lan = "on" \/ (flags.lan # "off" /\ layer["lan"] = TRUE),
        funnel |-> funnel,
        tailscale |-> /\ flags.expose # "off"
                      /\ funnel \/ flags.expose = "serve" \/ layer["tailscale"] = TRUE,
        command |-> CASE flags.command -> "cli"
                      [] ~flags.command /\ layer["command"] # Unset -> layer["command"]
                      [] OTHER -> IF flags.runner THEN "empty" ELSE "missing"]

\* Local files apply unless a file was selected with --config, without --local
UseLocal == ~flags.config \/ flags.local

\* load_project, merge_run and resolve_hostname in directory d.  The Git
\* repository is the root.
LoadProject(d) ==
    IF UseLocal THEN Override(files[d].shared, files[d].local) ELSE files[d].shared

ProjectName(d, layer) ==
    CASE flags.name # Unset -> flags.name
      [] flags.name = Unset /\ layer["name"] # Unset -> layer["name"]
      [] OTHER -> IF Head(d) = "r" THEN Root ELSE <<Last(d)>>

SingleRun(d) ==
    LET layer == LoadProject(d)
    IN [hostname |-> Normalize(ProjectName(d, layer)), settings |-> MergeRun(layer)]

-----------------------------------------------------------------------------
(* Workspaces: load_inner.                                                 *)

Entry(id) == override[id]
Written(id) == Entry(id) # [dir |-> Unset, layer |-> Nothing]

\* The first entry of an id takes what the root's local file says of it
Overridden ==
    [i \in DOMAIN manifest |->
       LET app == manifest[i]
           first == \A j \in 1..i - 1 : manifest[j].id # app.id
       IN IF UseLocal /\ first
          THEN [app EXCEPT !.dir = IF Entry(app.id).dir # Unset THEN Entry(app.id).dir ELSE @,
                           !.layer = Override(@, Entry(app.id).layer)]
          ELSE app]

UndeclaredOverride ==
    UseLocal /\ \E id \in AppIds : Written(id) /\ \A i \in DOMAIN manifest : manifest[i].id # id

WorkspaceName == Normalize(IF flags.name # Unset THEN flags.name ELSE Root)

\* What a member finds in its own directory.  At the root, nook.toml is the
\* manifest unless --config selected another one, and nook.local.toml is the
\* workspace's if it has entries of apps.
OwnFile(d) == IF d = Root /\ ~flags.config THEN Nothing ELSE files[d].shared
OwnLocal(d) == IF d = Root /\ \E id \in AppIds : Written(id) THEN Nothing ELSE files[d].local

\* The files of the member's own directory come on top.
MemberLayer(app) ==
    LET shared == Override(app.layer, OwnFile(app.dir))
    IN IF UseLocal THEN Override(shared, OwnLocal(app.dir)) ELSE shared

Member(app) ==
    LET layer == MemberLayer(app)
    IN [id |-> app.id, dir |-> app.dir, settings |-> MergeRun(layer),
        references |-> IF layer["env"] = Unset THEN {} ELSE layer["env"],
        hostname |-> Normalize(IF layer["name"] # Unset THEN layer["name"]
                               ELSE <<app.id>> \o WorkspaceName)]

\* One turn of the loop over the members: what it checks against the members
\* accepted before.
Accepts(members, app) ==
    /\ app.id \notin Malformed
    /\ \A m \in ToSet(members) : Lower(m.id) # Lower(app.id)
    /\ app.dir # Unset
    /\ IsPrefix(Root, app.dir)
    /\ \A m \in ToSet(members) : ~IsPrefix(m.dir, app.dir) /\ ~IsPrefix(app.dir, m.dir)
    /\ LET member == Member(app)
       IN /\ member.hostname # Invalid
          /\ member.settings.command # "missing"
          /\ member.settings.command = "empty" => flags.runner
          /\ ~member.settings.tailscale /\ ~member.settings.funnel /\ ~member.settings.lan
          /\ \A m \in ToSet(members) : m.hostname # member.hostname

Rejected == <<>>

AcceptMember(members, app, i) ==
    IF (i > 1 /\ members = Rejected) \/ ~Accepts(members, app)
    THEN Rejected ELSE Append(members, Member(app))

LoadWorkspace ==
    LET upTo[i \in 0..Len(manifest)] ==
          IF i = 0 THEN <<>> ELSE AcceptMember(upTo[i - 1], Overridden[i], i)
    IN IF UndeclaredOverride \/ WorkspaceName = Invalid THEN Rejected
       ELSE upTo[Len(manifest)]

References(members, id) == (CHOOSE m \in ToSet(members) : m.id = id).references

Searches(ids) == [ok : BOOLEAN, done : SUBSET ids]

\* visit one target: searched already, back on the active path, or new, with
\* "below" what the search of its own references comes to
Visit(search, target, active, below) ==
    CASE ~search.ok \/ target \in search.done -> search
      [] target \in active -> [search EXCEPT !.ok = FALSE]
      [] OTHER -> IF below.ok THEN [below EXCEPT !.done = @ \cup {target}] ELSE below

\* The targets one after the other; "deeper" searches the references of one
VisitAll(members, deeper, targets, active, search) ==
    LET after[i \in 0..Len(members)] ==
          IF i = 0 THEN search
          ELSE LET id == members[i].id
                   below == deeper[References(members, id)][active \cup {id}][after[i - 1]]
               IN IF id \in targets THEN Visit(after[i - 1], id, active, below)
                                    ELSE after[i - 1]
    IN after[Len(members)]

\* The depth-first search of validate_environment: a reference back into the
\* active path is a cycle.  "left" counts the apps that are not on that path.
SearchFrom(members, left) ==
    LET ids == {m.id : m \in ToSet(members)}
        visit[n \in 0..left] ==
          [targets \in SUBSET ids |-> [active \in SUBSET ids |-> [search \in Searches(ids) |->
             IF n = 0 THEN [search EXCEPT !.ok = @ /\ targets \subseteq search.done]
             ELSE VisitAll(members, visit[n - 1], targets, active, search)]]]
    IN visit[left]

\* Mutation of ValidEnvironment: cycles are not looked for.
ReferencesKnown(members) ==
    LET ids == {m.id : m \in ToSet(members)}
    IN \A m \in ToSet(members) : m.references \subseteq ids

ValidEnvironment(members) ==
    LET ids == {m.id : m \in ToSet(members)}
    IN /\ \A m \in ToSet(members) : m.references \subseteq ids
       /\ SearchFrom(members, Len(members))[ids][{}][[ok |-> TRUE, done |-> {}]].ok

\* The members that `nook run` starts.  prepare: with --only one of them, all
\* of whose references must then name itself.
Started ==
    LET members == LoadWorkspace
    IN IF members = Rejected \/ ~ValidEnvironment(members) THEN {}
       ELSE IF flags.only = Unset THEN ToSet(members)
       ELSE {m \in ToSet(members) : m.id = flags.only /\ m.references \subseteq {m.id}}

-----------------------------------------------------------------------------
(* What users do: they edit files and choose options.                      *)

NoFlags == [config |-> FALSE, local |-> FALSE, runner |-> FALSE, command |-> FALSE,
            name |-> Unset, port |-> Unset, lan |-> "", expose |-> "", only |-> Unset]

App(id, dir, references) ==
    [id |-> id, dir |-> dir,
     layer |-> [Nothing EXCEPT !["command"] = "serve", !["env"] = references]]

ConfigInit ==
    /\ manifest = <<App("a", <<"r", "x">>, {"b"}), App("b", <<"r", "z">>, {"c"}),
                     App("c", <<"r", "w">>, {})>>
    /\ override = [id \in AppIds |-> [dir |-> Unset, layer |-> Nothing]]
    /\ files = [d \in Directories |-> [shared |-> Nothing, local |-> Nothing]]
    /\ flags = NoFlags
    /\ edits = 0

EditManifest ==
    /\ \/ \E i \in DOMAIN manifest, f \in Fields : \E v \in Values[f] \cup {Unset} :
            manifest' = [manifest EXCEPT ![i].layer[f] = v]
       \/ \E i \in DOMAIN manifest, d \in Directories \cup {Unset} :
            manifest' = [manifest EXCEPT ![i].dir = d]
       \/ \E i \in DOMAIN manifest, id \in AppIds : manifest' = [manifest EXCEPT ![i].id = id]
       \/ \E id \in AppIds, d \in Directories : manifest' = Append(manifest, App(id, d, {}))
       \/ \E i \in DOMAIN manifest : manifest' = RemoveAt(manifest, i)
    /\ UNCHANGED <<override, files, flags>>

EditOverride ==
    /\ \E id \in AppIds :
         \/ \E f \in Fields : \E v \in Values[f] : override' = [override EXCEPT ![id].layer[f] = v]
         \/ \E d \in Directories : override' = [override EXCEPT ![id].dir = d]
    /\ UNCHANGED <<manifest, files, flags>>

EditFile ==
    /\ \E d \in Directories, f \in Fields : \E v \in Values[f] :
         \/ files' = [files EXCEPT ![d].shared[f] = v]
         \/ files' = [files EXCEPT ![d].local[f] = v]
    /\ UNCHANGED <<manifest, override, flags>>

ChooseFlags ==
    /\ \/ flags' = [flags EXCEPT !.config = TRUE]
       \/ flags' = [flags EXCEPT !.local = TRUE]
       \/ flags' = [flags EXCEPT !.runner = TRUE]
       \/ flags' = [flags EXCEPT !.command = TRUE]
       \/ \E name \in Values["name"] : flags' = [flags EXCEPT !.name = name]
       \/ flags' = [flags EXCEPT !.port = 0]
       \/ \E lan \in {"on", "off"} : flags' = [flags EXCEPT !.lan = lan]
       \/ \E expose \in {"off", "serve", "funnel"} : flags' = [flags EXCEPT !.expose = expose]
       \/ \E id \in AppIds : flags' = [flags EXCEPT !.only = id]
    /\ UNCHANGED <<manifest, override, files>>

ConfigNext ==
    /\ edits < MaxEdits
    /\ edits' = edits + 1
    /\ EditManifest \/ EditOverride \/ EditFile \/ ChooseFlags

ConfigSpec == ConfigInit /\ [][ConfigNext]_configVars

-----------------------------------------------------------------------------
(* What the documentation says.                                            *)

\* The first of several files, most specific first, that sets a field
FirstSet(layers, f) ==
    LET set == {i \in DOMAIN layers : layers[i][f] # Unset}
    IN IF set = {} THEN Unset ELSE layers[CHOOSE i \in set : \A j \in set : i <= j][f]

\* README.md:669-673: funnel before tailscale, and one option of the command
\* line before both.
DocumentedExposure(layers) ==
    CASE flags.expose # "" -> flags.expose
      [] flags.expose = "" /\ FirstSet(layers, "funnel") = TRUE -> "funnel"
      [] OTHER -> IF FirstSet(layers, "tailscale") = TRUE THEN "serve" ELSE "off"

SettingsFollow(settings, layers) ==
    /\ settings.port = IF flags.port # Unset THEN flags.port ELSE FirstSet(layers, "port")
    /\ settings.lan <=> (flags.lan = "on" \/ (flags.lan = "" /\ FirstSet(layers, "lan") = TRUE))
    /\ settings.tailscale <=> DocumentedExposure(layers) \in {"serve", "funnel"}
    /\ settings.funnel <=> DocumentedExposure(layers) = "funnel"

\* A file selected with --config is alone unless --local is given
Locals(layer) == IF flags.config /\ ~flags.local THEN Nothing ELSE layer

AppLayers(app) ==
    <<Locals(OwnLocal(app.dir)), OwnFile(app.dir), Locals(override[app.id].layer), app.layer>>

\* Where an app's directory is, with the root's local file
AppDir(app) ==
    IF UseLocal /\ override[app.id].dir # Unset THEN override[app.id].dir ELSE app.dir

Documented == [i \in DOMAIN manifest |-> [manifest[i] EXCEPT !.dir = AppDir(manifest[i])]]

\* Every setting of a run has the value of the most specific source that sets
\* it: command line, member's local file, member's file, root's local file,
\* root's file (docs/WORKSPACES.md:34-36, README.md:522-523, 659-673).
SettingsAsDocumented ==
    /\ \A d \in Directories :
         LET run == SingleRun(d)
             layers == <<Locals(files[d].local), files[d].shared>>
         IN /\ SettingsFollow(run.settings, layers)
            /\ run.hostname = Normalize(CASE flags.name # Unset -> flags.name
                                          [] flags.name = Unset /\ FirstSet(layers, "name") # Unset
                                               -> FirstSet(layers, "name")
                                          [] OTHER -> IF Head(d) = "r" THEN Root ELSE <<Last(d)>>)
    /\ \A m \in Started : \E i \in DOMAIN Documented :
         Documented[i].id = m.id /\ SettingsFollow(m.settings, AppLayers(Documented[i]))

\* Apps wait for one another's addresses in no circle
DependencyCycle(apps) ==
    \E S \in SUBSET apps : S # {} /\ \A a \in S : \E b \in S : b.id \in a.references

\* A workspace that starts is unambiguous: different ids and hostnames
\* whatever their case, separate directories inside the root, references that
\* name a started app, and no reference cycle (docs/WORKSPACES.md:31-37).
StartedIsUnambiguous ==
    LET started == Started
    IN /\ ~DependencyCycle(started)
       /\ \A m \in started :
            /\ m.references \subseteq {n.id : n \in started}
            /\ IsPrefix(Root, m.dir)
            /\ \A n \in started \ {m} :
                 /\ Lower(m.id) # Lower(n.id) /\ m.hostname # n.hostname
                 /\ ~IsPrefix(m.dir, n.dir)
=============================================================================
