------------------------------- MODULE MCLocal -------------------------------
(* What nook does with the processes, files, settings and arguments of one  *)
(* machine, without a server.  The parts share no state; Init picks the one *)
(* a behaviour is about.                                                    *)
EXTENDS ProcessGroups, RegistryFile, UserFiles, WorkspaceConfig, FrameworkArguments

CONSTANTS p1, p2, u1, u2, w1, w2

VARIABLE subject

localVars ==
    <<subject, groupVars, vars, fileVars, configVars, argumentVars>>

MCValues ==
    [s \in {"name", "command", "port", "lan", "tailscale", "funnel", "env"} |->
       CASE s = "name" -> {<<"n">>, <<"N", "localhost">>, <<"b", "r">>, <<"-">>}
         [] s = "command" -> {"empty"}
         [] s = "port" -> {1}
         [] s = "env" -> {{"a"}, {"b", "c"}}
         [] OTHER -> BOOLEAN]

MCWrappers ==
    {<<>>, <<Word("npx")>>, <<Word("npm"), Word("exec"), Separator>>,
     <<Word("yarn"), Word("-p"), Word("vite"), Word("dlx")>>, <<Word("pnpm")>>}

MCArguments ==
    {Word(w) : w \in {"dev", "build", "80", "{port}", "--", "--port", "-p",
                      "--host", "--root"}}
      \cup {With("--port", "80"), With("--host", "all")}

NoConfig ==
    /\ manifest = <<>>
    /\ override = [id \in AppIds |-> [dir |-> Unset, layer |-> Nothing]]
    /\ files = [d \in Directories |-> [shared |-> Nothing, local |-> Nothing]]
    /\ flags = NoFlags
    /\ edits = 0

\* A part that is not the subject has one initial state
LocalInit ==
    /\ subject \in {"processes", "registry", "files", "config", "arguments"}
    /\ GroupsInit /\ Init /\ FilesInit /\ ArgumentsInit
    /\ IF subject = "config" THEN ConfigInit ELSE NoConfig
    /\ subject # "processes" => ~owned
    /\ subject # "registry" => file = NoFile /\ \A p \in Procs : update[p] = u1
    /\ subject # "arguments" => prefix = <<>> /\ typed = <<Word("node")>>

LocalNext ==
    /\ UNCHANGED subject
    /\ \/ /\ subject = "processes" /\ GroupsNext
          /\ UNCHANGED <<vars, fileVars, configVars, argumentVars>>
       \/ /\ subject = "registry" /\ Next
          /\ UNCHANGED <<groupVars, fileVars, configVars, argumentVars>>
       \/ /\ subject = "files" /\ FilesNext
          /\ UNCHANGED <<groupVars, vars, configVars, argumentVars>>
       \/ /\ subject = "config" /\ ConfigNext
          /\ UNCHANGED <<groupVars, vars, fileVars, argumentVars>>
       \/ /\ subject = "arguments" /\ ArgumentsNext
          /\ UNCHANGED <<groupVars, vars, fileVars, configVars>>

LocalSpec == LocalInit /\ [][LocalNext]_localVars
=============================================================================
