------------------------- MODULE FrameworkArguments -------------------------
(***************************************************************************)
(* The arguments of the child of `nook run`: where the port is asked for   *)
(* by a placeholder, and where the child is a development server that      *)
(* ignores PORT and HOST, Nook puts its address among them.  The state is  *)
(* the command a user types; the arguments the child gets are a function   *)
(* of it.                                                                  *)
(***************************************************************************)
EXTENDS Naturals, Sequences, FiniteSets, SequencesExt

CONSTANTS
    Wrappers,      \* the wrappers a server may be started by, as in `npx -p vite`
    Programs,      \* executables
    Arguments,     \* arguments, as [name, value]
    MaxArguments   \* bound on the arguments after the executable

ASSUME WrapperAssumption == \A wrapper \in Wrappers : wrapper \in Seq(ToSet(wrapper))

VARIABLES
    prefix,    \* the wrapper typed
    typed      \* the executable and its arguments

argumentVars == <<prefix, typed>>

\* A word or an option with no value in it has the value ""; `--port=80` has
\* the name "--port" and the value "80".
Word(w) == [name |-> w, value |-> ""]
With(option, v) == [name |-> option, value |-> v]

PortOptions == {"--port", "-p"}
HostOptions == {"--host"}
Options == PortOptions \cup HostOptions
             \cup {"--", "--root", "--open", "--strictPort", "--strict-port",
                   "--allowed-hosts", "--cwd", "--yes"}
Dash(a) == a.name \in Options
Separator == Word("--")

\* framework_flag_takes_value, wrapper_flag_takes_value
ServerTakes == PortOptions \cup HostOptions \cup {"--root", "--allowed-hosts", "--cwd"}
WrapperTakes(program) ==
    IF program \in {"yarn", "bun", "bunx"} THEN {"-p", "--cwd"}
    ELSE PortOptions \cup HostOptions \cup {"--allowed-hosts", "--cwd"}

\* The first of some positions, or one past the end
First(args, found) == IF found = {} THEN Len(args) + 1 ELSE Min(found)

\* Which arguments are the value of the option before them
Skipped(args, takes) ==
    LET skipped[i \in 1..Len(args)] ==
          /\ i > 1
          /\ ~skipped[i - 1]
          /\ args[i - 1].value = "" /\ args[i - 1].name \in takes
    IN skipped

-----------------------------------------------------------------------------
(* Detection.                                                              *)

\* Framework::from_program, without path, version and Windows extension
FrameworkOf(a) ==
    CASE a.name \in {"vite", "vite@5"} -> "vite"
      [] a.name \in {"nuxt", "nuxi"} -> "nuxt"
      [] a.name = "astro" -> "astro"
      [] OTHER -> "none"

ServerWords == {"dev", "start", "preview", "serve"}
OtherWords == {"build", "optimize", "check", "lint", "generate", "sync", "test"}

\* serving_invocation: up to the first `--` that is not itself a value
ServingAmong(framework, args, skipped) ==
    LET end == First(args, {i \in DOMAIN args : ~skipped[i] /\ args[i] = Separator})
        words == {args[i].name : i \in {i \in 1..end - 1 : ~skipped[i] /\ ~Dash(args[i])}}
    IN words \cap OtherWords = {} /\ (framework = "vite" \/ words \cap ServerWords # {})
Serving(framework, args) == ServingAmong(framework, args, Skipped(args, ServerTakes))

\* next_operand_index: the first argument that is no option, or any after `--`
OperandAmong(args, skipped) ==
    LET end == First(args, {i \in DOMAIN args : ~skipped[i] /\ args[i] = Separator})
    IN First(args, {i \in DOMAIN args : ~skipped[i] /\ (i > end \/ ~Dash(args[i]))})
Operand(program, args) == OperandAmong(args, Skipped(args, WrapperTakes(program)))

After(argv, i) == SubSeq(argv, i + 1, Len(argv))

\* framework_executable_index; past the end if there is none
ExecutableFrom(argv, program, first) ==
    CASE FrameworkOf(argv[1]) # "none" -> 1
      [] program \in {"npx", "bunx", "pnpx"} -> first
      [] program \in {"npm", "pnpm", "yarn", "bun"} ->
           IF first <= Len(argv) /\ argv[first].name \in {"exec", "dlx", "x"}
           THEN first + Operand(program, After(argv, first))
           ELSE Len(argv) + 1
      [] OTHER -> Len(argv) + 1
Executable(argv) ==
    ExecutableFrom(argv, argv[1].name, 1 + Operand(argv[1].name, Tail(argv)))

\* FrameworkChoice::resolve
ResolveAt(choice, argv, i) ==
    LET framework == IF i > Len(argv) THEN "none" ELSE FrameworkOf(argv[i])
    IN CASE choice = "auto" ->
              IF framework # "none" /\ Serving(framework, After(argv, i))
              THEN framework ELSE "none"
         [] OTHER -> choice
Resolve(choice, argv) == ResolveAt(choice, argv, Executable(argv))

-----------------------------------------------------------------------------
(* Alignment.                                                              *)

Nooks == "nook"    \* the port or the host that Nook gives the child

\* substitute_port
SubstitutePort(argv) ==
    [i \in DOMAIN argv |->
       [name |-> IF argv[i].name = "{port}" THEN Nooks ELSE argv[i].name,
        value |-> IF argv[i].value = "{port}" THEN Nooks ELSE argv[i].value]]

\* overwrite_option on the arguments before `--`: each occurrence gets Nook's
\* value; a last or valueless --host gets one too.
Overwrite(args, options) ==
    [i \in DOMAIN args |->
       LET valueless == i = Len(args) \/ Dash(args[i + 1])
       IN CASE args[i].name \in options ->
                 IF args[i].value # "" \/ (options = HostOptions /\ valueless)
                 THEN With(args[i].name, Nooks) ELSE args[i]
            [] /\ ~Dash(args[i]) /\ i > 1
               /\ args[i - 1].name \in options /\ args[i - 1].value = "" -> Word(Nooks)
            [] OTHER -> args[i]]

\* Mutation of Overwritten: an option without a value counts.
OverwrittenAtAll(args, options) == \E i \in DOMAIN args : args[i].name \in options

\* What overwrite_option answers: some occurrence has Nook's value
Overwritten(args, options) ==
    \E i \in DOMAIN args :
      /\ args[i].name \in options
      /\ \/ args[i].value # "" \/ options = HostOptions
         \/ i < Len(args) /\ ~Dash(args[i + 1])

HasOption(args, options) == \E i \in DOMAIN args : args[i].name \in options

\* inject_argv: what is overwritten stays in place; what is missing is added
\* at the end...
Aligned(framework, args, strict) ==
    LET Missing(options, added) == IF HasOption(args, options) THEN <<>> ELSE added
        Unless(options, added) == IF Overwritten(args, options) THEN <<>> ELSE added
    IN Overwrite(Overwrite(args, HostOptions), PortOptions)
         \o Unless(HostOptions, <<Word("--host"), Word(Nooks)>>)
         \o Unless(PortOptions, <<Word("--port"), Word(Nooks)>>)
         \o (IF framework = "vite" /\ strict
             THEN Missing({"--strictPort", "--strict-port"}, <<Word("--strictPort")>>)
             ELSE <<>>)
         \o (IF framework = "astro"
             THEN Missing({"--allowed-hosts"}, <<Word("--allowed-hosts"), Word(Nooks)>>)
             ELSE <<>>)

\* ...before `--`
FirstSeparator(args) == First(args, {i \in DOMAIN args : args[i] = Separator})
BeforeSeparator(args) == SubSeq(args, 1, FirstSeparator(args) - 1)

InjectAt(framework, argv, strict, i) ==
    LET args == After(argv, i)
    IN IF \/ i > Len(argv)
          \/ FrameworkOf(argv[i]) # framework
          \/ ~Serving(framework, args)
       THEN argv
       ELSE SubSeq(argv, 1, i)
              \o Aligned(framework, BeforeSeparator(args), strict)
              \o SubSeq(args, FirstSeparator(args), Len(args))
Inject(framework, argv, strict) == InjectAt(framework, argv, strict, Executable(argv))

\* spawn_prepared_run
Argv == SubstitutePort(prefix \o typed)
ChildArgv(argv, framework, strict) ==
    IF framework = "none" THEN argv ELSE Inject(framework, argv, strict)

-----------------------------------------------------------------------------
ArgumentsInit ==
    /\ prefix \in Wrappers
    /\ typed \in {<<Word(p)>> : p \in Programs}

\* The user types another argument
Type(a) ==
    /\ Len(typed) <= MaxArguments
    /\ typed' = Append(typed, a)
    /\ UNCHANGED prefix

ArgumentsNext == \E a \in Arguments : Type(a)

ArgumentsSpec == ArgumentsInit /\ [][ArgumentsNext]_argumentVars

-----------------------------------------------------------------------------
(* What the server makes of its arguments.                                 *)

\* The values it reads for an option: an occurrence without one reads as ""
Reads(args, options) ==
    LET ValueAt(i) == CASE args[i].value # "" -> args[i].value
                        [] args[i].value = "" /\ i < Len(args) /\ ~Dash(args[i + 1])
                             -> args[i + 1].name
                        [] OTHER -> ""
    IN {ValueAt(i) : i \in {i \in DOMAIN args : args[i].name \in options}}

\* The places of everything but the options that Nook answers for
Strict == {"--strictPort", "--strict-port"}
Nookish == PortOptions \cup HostOptions \cup {"--allowed-hosts"}
Others(args) ==
    {i \in DOMAIN args :
       /\ args[i].name \notin Nookish \cup Strict
       /\ ~(/\ i > 1 /\ ~Dash(args[i])
            /\ args[i - 1].name \in Nookish /\ args[i - 1].value = "")}

\* The server at position i of the command, aligned, listens where Nook looks
\* for it, and nothing else of its command has changed or moved
ListensAsTold(child, i, seen, args) ==
    /\ \A options \in {PortOptions, HostOptions} :
         Nooks \in Reads(seen, options) /\ Reads(seen, options) \subseteq {Nooks, ""}
    /\ Others(seen) = Others(BeforeSeparator(args))
    /\ \A k \in Others(seen) : seen[k] = args[k]
    /\ SubSeq(After(child, i), Len(seen) + 1, Len(child) - i)
         = SubSeq(args, Len(BeforeSeparator(args)) + 1, Len(args))

AlignedOrUntouched(given, child, framework, i) ==
    IF /\ i <= Len(given) /\ framework # "none"
       /\ FrameworkOf(given[i]) = framework /\ Serving(framework, After(given, i))
    THEN ListensAsTold(child, i, BeforeSeparator(After(child, i)), After(given, i))
    ELSE child = given

AlignedFor(given, framework, strict) ==
    AlignedOrUntouched(given, ChildArgv(given, framework, strict), framework, Executable(given))

\* A server that Nook aligns listens where Nook looks for it, whatever
\* addresses the user typed, in whatever form and how often: it reads Nook's
\* host and Nook's port and no other.  The rest of its arguments, and all that
\* follows `--`, are what the user typed; and a command that serves nothing is
\* left alone.
ArgumentsAligned ==
    \A choice \in {"auto", "vite", "nuxt"}, strict \in BOOLEAN :
      AlignedFor(Argv, Resolve(choice, Argv), strict)
=============================================================================
