---------------------------- MODULE PlainBoxTool ----------------------------
(***************************************************************************)
(* The tool plainbox: its start, its commands and its end (impl/box.py,    *)
(* impl/commands), the configuration that it reads (impl/config.py), and   *)
(* the analyze command. They share no state; each has its own variables,   *)
(* initial states and steps.                                               *)
(***************************************************************************)
EXTENDS Naturals, Sequences, FiniteSets

-----------------------------------------------------------------------------
(***************************************************************************)
(* The program `plainbox' from its start to its status: logging is set up  *)
(* (impl/logging.py), the arguments are parsed twice, in between the       *)
(* plug-ins are loaded (impl/plugins.py) and the provider of jobs is made  *)
(* (impl/providers), and the command runs with its exceptions caught by    *)
(* kind (impl/commands).  The user may interrupt it at every step.         *)
(*                                                                         *)
(* The handlers of logging are kept with their levels and filters, their   *)
(* formats are not.  The commands run and sru are modelled elsewhere: here *)
(* they are one that returns or raises something.                          *)
(***************************************************************************)

CONSTANTS
  Arguments,    \* what may be given: [checkbox, level, trace, console, pdb, debug_interrupt, asks]
  Configured,   \* what the configuration may say of default_provider
  Machines      \* [loads: entry point -> how it loads, in order; dirs; log_dir]

VARIABLES
  argv, machine, configured,
  tool_at,           \* where the program is
  levels,       \* the levels that are set, of loggers and of the handler console_debug
  unloaded,     \* the entry points that are not loaded yet
  plugins,      \* the names that are
  provider,     \* where jobs come from
  work,         \* what the work came to, once it has
  caught,       \* the exception that ended the command
  exit_status,
  said          \* the log records that matter, each with the handlers that wrote it

tool_vars == <<argv, machine, configured, tool_at, levels, unloaded, plugins, provider, work,
               caught,
               exit_status, said>>
given == <<argv, machine, configured>>

Level == [NOTSET |-> 0, DEBUG |-> 10, INFO |-> 20, WARNING |-> 30, ERROR |-> 40,
          CRITICAL |-> 50]
Running == 999                   \* no status yet
None == "none"
Early == {"early", "logging", "config", "plugins", "provider", "parse"}

ToolTypeOK ==
  /\ argv \in Arguments /\ machine \in Machines /\ configured \in Configured
  /\ tool_at \in Early \cup {"command", "ended"} /\ exit_status \in 0..255 \cup {Running}
  /\ (exit_status = Running) = (tool_at # "ended")
  /\ \A r \in said : r.level \in DOMAIN Level

ToolInit ==
  /\ argv \in Arguments /\ machine \in Machines /\ configured \in Configured
  /\ tool_at = "early" /\ unloaded = <<>> /\ plugins = {} /\ provider = None
  /\ levels = [plainbox |-> Level.WARNING, crashes |-> Level.ERROR, plugins |-> Level.NOTSET,
               console_debug |-> 150]
  /\ work = None /\ caught = None /\ exit_status = Running /\ said = {}

---------------------------------------------------------------------------
(* Logging *)

From(min, max) == [level |-> Level.NOTSET, min |-> min, max |-> max]
At(level) == [level |-> level, min |-> Level.NOTSET, max |-> Level.CRITICAL]

\* What a handler takes: from its level on, and what its filter lets through.
Handlers ==
  [console_debug   |-> [From(Level.NOTSET, Level.DEBUG) EXCEPT !.level = levels.console_debug],
   console_info    |-> From(Level.INFO, Level.INFO),
   console_warning |-> From(Level.WARNING, Level.WARNING),
   console_error   |-> At(Level.ERROR),
   logfile_debug   |-> From(Level.NOTSET, Level.DEBUG),
   logfile_error   |-> At(Level.ERROR),
   logfile_crash   |-> At(Level.ERROR)]

Console == {"console_debug", "console_info", "console_warning", "console_error"}

\* Without a directory for logs everything goes to the console.
HandlersOf(logger) ==
  LET plainbox == Console \cup (IF machine.log_dir THEN {"logfile_error", "logfile_debug"} ELSE {})
  IN  IF logger # "crashes" THEN plainbox
      ELSE plainbox \cup {IF machine.log_dir THEN "logfile_crash" ELSE "console_error"}

EffectiveLevel(logger) ==
  IF levels[logger] = Level.NOTSET THEN levels.plainbox ELSE levels[logger]

WrittenBy(logger, level) ==
  IF level < EffectiveLevel(logger) THEN {}
  ELSE {h \in HandlersOf(logger) :
          level >= Handlers[h].level /\ Handlers[h].min <= level /\ level <= Handlers[h].max}

Say(logger, level) ==
  said' = said \cup {[logger |-> logger, level |-> level,
                      to |-> WrittenBy(logger, Level[level])]}

\* adjust_logging().  The level is also that of the root logger, which has no handler.
AdjustLogging ==
  /\ tool_at = "logging" /\ tool_at' = "config"
  /\ levels' = [l \in DOMAIN levels |->
       IF l = "console_debug"
       THEN IF argv.console /\ (argv.level = "DEBUG" \/ argv.trace # {}) THEN Level.DEBUG
            ELSE levels[l]
       ELSE IF l \in argv.trace THEN Level.DEBUG
       ELSE IF l = "plainbox" /\ argv.level # None THEN Level[argv.level]
       ELSE levels[l]]
  /\ UNCHANGED <<given, unloaded, plugins, provider, work, caught, exit_status, said>>

---------------------------------------------------------------------------
(* The end *)

End(status, what, exc) ==
  /\ tool_at' = "ended" /\ exit_status' = status /\ work' = what /\ caught' = exc
  /\ UNCHANGED <<given, levels, unloaded, plugins, provider>>

Exit(status) == End(status, None, "SystemExit") /\ UNCHANGED said

\* An exception before there is a command: python prints it, nobody logs it.
Crash(exc) == End(1, None, exc) /\ UNCHANGED said

\* dispatch_and_catch_exceptions()
Action(exc) ==
  CASE exc = "EPIPE" -> "ignore"
    [] exc = "IOError" -> "raise"
    [] exc = "KeyboardInterrupt" -> IF argv.debug_interrupt THEN "debug" ELSE "ignore"
    [] OTHER -> IF argv.pdb THEN "debug" ELSE "raise"

Caught(exc, what) ==
  /\ End(IF Action(exc) = "ignore" THEN 0 ELSE 1, what, exc)
  /\ CASE Action(exc) = "ignore" -> UNCHANGED said
       [] Action(exc) = "raise" -> Say("crashes", "CRITICAL")
       [] Action(exc) = "debug" -> Say("plainbox", "ERROR")

\* Before there is a command main() passes, and returns nothing, which is success.
Interrupt ==
  \/ /\ tool_at \in Early /\ End(0, None, "KeyboardInterrupt") /\ UNCHANGED said
  \/ /\ tool_at = "command" /\ Caught("KeyboardInterrupt", None)

---------------------------------------------------------------------------
(* The start *)

Choices == {"src", "deb", "auto", "stub", "ihv"}

\* The early parser knows neither --help nor the commands.
ParseEarly ==
  /\ tool_at = "early"
  /\ IF argv.checkbox \in Choices \cup {None}
     THEN tool_at' = "logging" /\ UNCHANGED <<given, levels, unloaded, plugins, provider, work,
                                              caught,
                                              exit_status, said>>
     ELSE Exit(2)

\* A value that is no choice is a problem of the configuration, which then has
\* its default; of a file that is not well formed the values cannot be used.
LoadConfig ==
  /\ tool_at = "config"
  /\ IF configured = "broken" THEN Crash("AttributeError")
     ELSE /\ tool_at' = "plugins"
          /\ unloaded' = machine.loads
          /\ UNCHANGED <<given, levels, plugins, provider, work, caught, exit_status, said>>

\* PlugInCollection.load(), one of its entry points.
LoadPlugIn ==
  /\ tool_at = "plugins" /\ unloaded # <<>>
  /\ IF Head(unloaded).loads = "fails" THEN Crash("Exception")
     ELSE /\ unloaded' = Tail(unloaded)
          /\ IF Head(unloaded).loads = "ok"
             THEN plugins' = plugins \cup {Head(unloaded).name} /\ UNCHANGED said
             ELSE Say("plugins", "ERROR") /\ UNCHANGED plugins
          /\ UNCHANGED <<given, tool_at, levels, provider, work, caught, exit_status>>

Loaded ==
  /\ tool_at = "plugins" /\ unloaded = <<>>
  /\ tool_at' = "provider"
  /\ UNCHANGED <<given, levels, unloaded, plugins, provider, work, caught, exit_status, said>>

PluginName(checkbox) ==
  CASE checkbox = "auto" -> "checkbox-auto" [] checkbox = "src" -> "checkbox-src"
    [] checkbox = "deb" -> "checkbox-deb" [] checkbox = "stub" -> "stubbox"
    [] checkbox = "ihv" -> "ihv"

Asked ==
  IF argv.checkbox # None THEN argv.checkbox
  ELSE IF configured \in Choices THEN configured ELSE "auto"

\* CheckBoxAutoProvider(), CheckBoxSrcProvider() and CheckBoxDebProvider(): where
\* the checkbox of that name is, or nothing.
Found(checkbox) ==
  CASE checkbox = "stub" -> "stub"
    [] checkbox \in {"src", "deb"} -> IF checkbox \in machine.dirs THEN checkbox ELSE None
    [] OTHER -> IF "src" \in machine.dirs THEN "src"
                ELSE IF "deb" \in machine.dirs THEN "deb" ELSE None

MakeProvider ==
  /\ tool_at = "provider"
  /\ IF PluginName(Asked) \notin plugins THEN Crash("KeyError")
     ELSE IF Found(Asked) = None THEN Crash("CheckBoxNotFound")
     ELSE /\ provider' = Found(Asked) /\ tool_at' = "parse"
          /\ UNCHANGED <<given, levels, unloaded, plugins, work, caught, exit_status, said>>

\* --help and --version end here; so does a command that the parser rejects.
\* That none is given is only noticed by dispatch_command().
Parse ==
  /\ tool_at = "parse"
  /\ CASE argv.asks = "help" -> Exit(0)
       [] argv.asks \in {"bad", "nothing"} -> Exit(2)
       [] OTHER -> /\ tool_at' = "command"
                   /\ UNCHANGED <<given, levels, unloaded, plugins, provider, work, caught,
                                  exit_status, said>>

---------------------------------------------------------------------------
(* The commands *)

Return(status, what) == End(status, what, None) /\ UNCHANGED said

\* ScriptInvocation.run(): the status of the job, 256 - n when signal n killed it.
ScriptStatus(job) ==
  CASE job = "unknown" -> 126 [] job = "commandless" -> 125
    [] job = "passes" -> 0 [] job = "fails" -> 1 [] job = "killed" -> 247

\* What the job has left behind is printed before its status is known to anybody.
Script ==
  /\ tool_at = "command" /\ argv.asks = "script"
  /\ \E job \in {"unknown", "commandless", "passes", "fails", "killed"}, text \in BOOLEAN :
       LET what == IF job = "passes" THEN "done" ELSE "failed" IN
         IF job \in {"passes", "fails", "killed"} /\ ~text THEN Caught("UnicodeDecodeError", what)
         ELSE Return(ScriptStatus(job), what)

\* ParseInvocation.run(): text that is not UTF-8 raises what is not caught.
ParseText ==
  /\ tool_at = "command" /\ argv.asks = "parse"
  /\ \E input \in {"list", "good", "bad", "undecodable"} :
       CASE input \in {"list", "good"} -> Return(0, "done")
         [] input = "bad" -> Return(2, "failed")
         [] OTHER -> Caught("UnicodeDecodeError", "failed")

\* special always succeeds and analyze returns nothing; the jobs of the provider
\* may be impossible to load, and the reader of the output may be gone.
List ==
  /\ tool_at = "command" /\ argv.asks = "list"
  /\ \/ Return(0, "done")
     \/ \E exc \in {"EPIPE", "IOError", "SyntaxError"} : Caught(exc, "failed")

SelfTest ==
  /\ tool_at = "command" /\ argv.asks = "self-test"
  /\ \E successful \in BOOLEAN :
       Return(IF successful THEN 0 ELSE 1, IF successful THEN "done" ELSE "failed")

CrashAsked ==
  /\ tool_at = "command" /\ argv.asks = "crash" /\ Caught("Exception", "failed")

ToolNext ==
  \/ ParseEarly \/ AdjustLogging \/ LoadConfig \/ LoadPlugIn \/ Loaded \/ MakeProvider \/ Parse
  \/ Script \/ ParseText \/ List \/ SelfTest \/ CrashAsked
  \/ Interrupt

ToolSpec == ToolInit /\ [][ToolNext]_tool_vars

---------------------------------------------------------------------------
(* Properties *)

\* A command that crashed has left a record, in crash.log or, where there can
\* be no such file, on the console: no option of logging takes it away.  Only
\* the user who asked for the debugger gets that instead.
CrashesAreOnRecord ==
  tool_at = "ended" /\ caught \notin {None, "SystemExit", "EPIPE", "KeyboardInterrupt"}
     /\ ~argv.pdb /\ provider # None =>
    \E r \in said : /\ r.logger = "crashes"
                    /\ (IF machine.log_dir THEN "logfile_crash" ELSE "console_error") \in r.to

\* A provider that could not be imported is not passed over in silence: the
\* user is told, unless he has asked for less than errors.
SkippedIsOnRecord ==
  tool_at \in {"provider", "parse", "command"} =>
    \A i \in DOMAIN machine.loads :
      machine.loads[i].name \notin plugins =>
        \/ argv.level = "CRITICAL" /\ "plugins" \notin argv.trace
        \/ \E r \in said : /\ r.logger = "plugins" /\ "console_error" \in r.to
                           /\ machine.log_dir => "logfile_error" \in r.to

\* Jobs come from where the command line says, from where the configuration says
\* if it does not, and from the source tree, if there is one, if neither does.
ProviderIsAsked ==
  provider # None =>
    /\ argv.checkbox \in {"src", "deb", "stub"} => provider = argv.checkbox
    /\ argv.checkbox = None /\ configured \in {"src", "deb", "stub"} => provider = configured
    /\ {argv.checkbox, configured} \subseteq {None, "auto", "ihv", "bad"} =>
         provider = IF "src" \in machine.dirs THEN "src" ELSE "deb"

\* Work that failed is not reported as a success, but where nobody reads the
\* output any more.
StatusTellsFailure ==
  tool_at = "ended" /\ work = "failed" /\ exit_status = 0 => caught = "EPIPE"

-----------------------------------------------------------------------------
(***************************************************************************)
(* How plainbox reads its configuration (Config.read() of                  *)
(* plainbox/impl/config.py, with the variables of PlainBoxConfig), what    *)
(* check-config says of it, and what a job's environment takes from it.    *)
(*                                                                         *)
(* A file is the set of the options it sets, and where it is broken: with  *)
(* "syntax" in a line, which ConfigParser reports when it has read the     *)
(* others, without having joined the lines of their values; with "header", *)
(* before the first section.  A value is one of a few; "%" stands for one  *)
(* that cannot be interpolated.  A section that a file has sets something. *)
(***************************************************************************)

CONSTANTS
  Contents,      \* bound: what a file may contain, or {} if it is not there
  FileCount,     \* the number of files in Meta.filename_list
  Variables,     \* Meta.variable_list, as a sequence of names
  SectionOf,     \* variable -> its section
  DefaultOf,     \* variable -> its default
  Valid,         \* variable -> the values that its validators accept
  UserEnvironment \* the variables that the environment has already

VARIABLES
  files,         \* the files, in the order of Meta.filename_list
  config_at,            \* the file, variable or step that comes next
  config_pc,     \* "files", "variables", "sections", "done" or "raised"
  parsed,        \* the options that the parser has
  filename_list, \* _filename_list
  config_problem_list,  \* _config_problem_list
  variable,      \* _var
  environment    \* the section `environment', a singleton, or {} if it is Unset

config_vars == <<files, config_at, config_pc, parsed, filename_list, config_problem_list,
                 variable, environment>>

Option(section, name, value, joined) ==
  [section |-> section, name |-> name, value |-> value, joined |-> joined]

Paths == 1..FileCount

ConfigTypeOK ==
  /\ files \in [Paths -> SUBSET Contents] /\ \A f \in Paths : Cardinality(files[f]) <= 1
  /\ config_pc \in {"files", "variables", "sections", "done", "raised"}
  /\ \A o, p \in parsed : o.section = p.section /\ o.name = p.name => o = p
  /\ filename_list \subseteq Paths
  /\ \A v \in DOMAIN variable : variable[v] \in Valid[v]
  /\ Cardinality(environment) <= 1

ConfigInit ==
  /\ files \in [Paths -> {{c} : c \in Contents} \cup {{}}]
  /\ config_at = 1 /\ config_pc = "files"
  /\ parsed = {} /\ filename_list = {} /\ config_problem_list = {}
  /\ variable = <<>> /\ environment = {}

-----------------------------------------------------------------------------
(* ConfigParser, as it is used.                                            *)

Read(content) == IF content.error = "header" THEN {} ELSE content.options

\* Mutant of Merge: an error leaves the values of the files before it unjoined too.
MergeUnjoined(content) ==
  LET new == Read(content)
      kept == {o \in parsed :
                 ~\E n \in new : n.section = o.section /\ n.name = o.name}
  IN  {Option(o.section, o.name, o.value, content.error = "none") : o \in new \cup kept}

\* What a file adds; its options replace those of the files before it.
Merge(content) ==
  LET new == {Option(o.section, o.name, o.value, content.error = "none") :
                o \in Read(content)}
      kept == {o \in parsed :
                 ~\E n \in new : n.section = o.section /\ n.name = o.name}
  IN  new \cup kept

HasSection(section) == \E o \in parsed : o.section = section

\* What get() finds: an option of the section goes before one of DEFAULT.
Lookup(section, name) ==
  LET in(s) == {o \in parsed : o.section = s /\ o.name = name}
  IN  IF in(section) # {} THEN in(section) ELSE in("DEFAULT")

\* A value whose lines were not joined is a list, which has no find().
CanInterpolate(option) == option.joined /\ option.value # "%"

\* items(): the options of the section, and those of DEFAULT.
Items(section) ==
  UNION {Lookup(section, o.name) :
           o \in {p \in parsed : p.section \in {section, "DEFAULT"}}}

-----------------------------------------------------------------------------
(* Config.read()                                                           *)

Continue(pc) == config_pc' = pc /\ config_at' = 1

\* parser.read(): files that cannot be opened are left out; the first error
\* ends it, and then nothing is known to be read.
ReadFile ==
  /\ config_pc = "files" /\ config_at <= FileCount
  /\ IF files[config_at] = {} THEN UNCHANGED parsed
     ELSE \A c \in files[config_at] : parsed' = Merge(c)
  /\ IF \E c \in files[config_at] : c.error # "none"
     THEN Continue("variables") /\ config_problem_list' = {"file"}
     ELSE config_at' = config_at + 1 /\ UNCHANGED <<config_pc, config_problem_list>>
  /\ UNCHANGED <<files, filename_list, variable, environment>>

FilesRead ==
  /\ config_pc = "files" /\ config_at > FileCount
  /\ filename_list' = {f \in Paths : files[f] # {}}
  /\ Continue("variables")
  /\ UNCHANGED <<files, parsed, config_problem_list, variable, environment>>

Raise == config_pc' = "raised" /\ UNCHANGED <<config_at, config_problem_list, variable>>

\* Variable.__set__(), and ValidationError.
SetVariable(v, value) ==
  \/ /\ value \in Valid[v]
     /\ variable' = [x \in DOMAIN variable \cup {v} |-> IF x = v THEN value ELSE variable[x]]
     /\ UNCHANGED config_problem_list
  \/ /\ value \notin Valid[v]
     /\ config_problem_list' = config_problem_list \cup {v}
     /\ UNCHANGED variable

\* One turn of the loop over the variables: NoSectionError, NoOptionError, an
\* error that nobody expects, or a value.
LoadVariable ==
  /\ config_pc = "variables" /\ config_at <= Len(Variables)
  /\ LET v == Variables[config_at]
         found == Lookup(SectionOf[v], v)
     IN  \/ /\ ~HasSection(SectionOf[v]) \/ found = {}
            /\ config_at' = config_at + 1
            /\ UNCHANGED <<config_pc, config_problem_list, variable>>
         \/ /\ HasSection(SectionOf[v])
            /\ \E o \in found :
                 IF CanInterpolate(o)
                 THEN SetVariable(v, o.value) /\ config_at' = config_at + 1 /\ UNCHANGED config_pc
                 ELSE Raise
  /\ UNCHANGED <<files, parsed, filename_list, environment>>

VariablesLoaded ==
  /\ config_pc = "variables" /\ config_at > Len(Variables)
  /\ Continue("sections")
  /\ UNCHANGED <<files, parsed, filename_list, config_problem_list, variable, environment>>

\* The section `environment'
LoadSection ==
  /\ config_pc = "sections"
  /\ LET items == Items("environment")
     IN  \/ /\ ~HasSection("environment")
            /\ Continue("done")
            /\ UNCHANGED <<config_problem_list, variable, environment>>
         \/ /\ HasSection("environment") /\ \A o \in items : CanInterpolate(o)
            /\ environment' = {{[name |-> o.name, value |-> o.value] : o \in items}}
            /\ Continue("done")
            /\ UNCHANGED <<config_problem_list, variable>>
         \/ /\ HasSection("environment") /\ \E o \in items : ~CanInterpolate(o)
            /\ Raise
            /\ UNCHANGED environment
  /\ UNCHANGED <<files, parsed, filename_list>>

ConfigNext == ReadFile \/ FilesRead \/ LoadVariable \/ VariablesLoaded \/ LoadSection

ConfigSpec == ConfigInit /\ [][ConfigNext]_config_vars

-----------------------------------------------------------------------------
(* What the configuration is used for.                                     *)

\* Variable.__get__()
Get(v) == IF v \in DOMAIN variable THEN variable[v] ELSE DefaultOf[v]

Named(name) == UNION {{i.value : i \in {j \in e : j.name = name}} : e \in environment}

Names == UNION {{i.name : i \in e} : e \in environment}

\* modify_execution_environment(): the variables and their values, "user" for
\* what was there before.
JobEnvironment ==
  [name \in UserEnvironment \cup Names |->
     IF name \in UserEnvironment THEN {"user"} ELSE Named(name)]

\* check-config: which files it says are there, and its exit status.
SaysPresent(f) == f \in filename_list

Status == IF config_problem_list = {} THEN 0 ELSE 1

-----------------------------------------------------------------------------
(* Correctness.                                                            *)

Done == config_pc = "done"

Broken(f) == \E c \in files[f] : c.error # "none"

\* The files that count: up to the first that is broken, which may count.
Counted == {f \in Paths : files[f] # {} /\ \A g \in 1..(f - 1) : ~Broken(g)}

SetBy(f, section, name) ==
  {o.value : o \in {p \in UNION {Read(c) : c \in files[f]} :
                      p.section = section /\ p.name = name}}

\* What the last of the files that set an option sets it to.
LastSet(section, name) ==
  UNION {SetBy(f, section, name) :
           f \in {g \in Counted :
                    \A h \in Counted : h > g => SetBy(h, section, name) = {}}}

InSection(section) == \E f \in Counted : \E o \in UNION {Read(c) : c \in files[f]} :
                        o.section = section

\* What a section says of a name, if any file has the section; it falls back
\* to DEFAULT.
Said(section, name) ==
  IF ~InSection(section) THEN {}
  ELSE IF LastSet(section, name) # {} THEN LastSet(section, name)
  ELSE LastSet("DEFAULT", name)

\* After read(), a variable is what the last file says that sets it, and if
\* that is not valid its default, with a problem listed, and not what a file
\* before says.
VariablesAreConfigured ==
  Done => \A i \in DOMAIN Variables :
    LET v == Variables[i]
    IN  /\ Said(SectionOf[v], v) = {} => Get(v) = DefaultOf[v] /\ v \notin config_problem_list
        /\ \A value \in Said(SectionOf[v], v) :
             /\ value \in Valid[v] => Get(v) = value /\ v \notin config_problem_list
             /\ value \notin Valid[v] => Get(v) = DefaultOf[v] /\ v \in config_problem_list

\* check-config succeeds only if every file that is there was read, and says
\* so; a file that it calls not present is that, or one is broken: then
\* none is called present, although those before it count (config.py:425).
PresentFilesAreRead ==
  Done =>
    /\ Status = 0 => \A f \in Paths : SaysPresent(f) <=> files[f] # {}
    /\ (\E f \in Paths : SaysPresent(f)) => ~\E g \in Paths : Broken(g)

\* "If any problem is detected during parsing (e.g. syntax errors) those are
\* captured" (config.py:401): reading raises only for a value that cannot be
\* interpolated, or one of the file that has the syntax error.
RaisesForAReason ==
  config_pc = "raised" =>
    \E f \in Counted : \E c \in files[f] : \E o \in Read(c) :
      \/ o.value = "%"
      \/ c.error = "syntax" /\ o.value \in Said(o.section, o.name)

\* A job gets the variables of the environment that plainbox was started in as
\* they are, and of the others those that the last file to set them sets in
\* the section `environment', or in DEFAULT if some file has that section.
EnvironmentIsDeclared ==
  Done => \A name \in DOMAIN JobEnvironment :
    JobEnvironment[name] =
      IF name \in UserEnvironment THEN {"user"} ELSE Said("environment", name)

-----------------------------------------------------------------------------
(***************************************************************************)
(* "plainbox dev analyze" (impl/commands/analyze.py): with --run-local the *)
(* local jobs that are selected are run, until none is left without a      *)
(* result; each may generate jobs that are selected in turn, local ones    *)
(* among them.  Then the reports are printed.                              *)
(*                                                                         *)
(* The session is an abstraction of SessionState: a selected job that      *)
(* depends on an unknown one is a problem and is not in the run list, and  *)
(* the order of the run list is any.  That a job which depends on such a   *)
(* job makes the selection raise is SessionState's, and patterns that      *)
(* exclude jobs are JobSelection's; there are none here.                   *)
(***************************************************************************)

CONSTANTS
  Plugin,      \* job -> its plugin
  Depends,     \* job -> the jobs that it depends on
  Generates,   \* local job -> the jobs that it prints
  Builtin,     \* the sets of jobs that the provider may have
  Patterns     \* the sets of jobs that the patterns may match

VARIABLES
  known,       \* session.job_list
  matched,     \* what the patterns match, of all jobs
  run_local, reports,  \* the options
  run_list,
  analyze_problem_list,
  outcome,     \* job -> the outcome of its result, "none" if it has none
  runs,        \* history: job -> how often it was run
  printed,     \* history: report -> what it says
  analyze_at

analyze_vars == <<known, matched, run_local, reports, run_list, analyze_problem_list, outcome,
                  runs, printed, analyze_at>>

Jobs == DOMAIN Plugin
Reports == {"stats", "dependencies", "interactivity"}
Interactive == {"user-verify", "user-interact", "manual"}

---------------------------------------------------------------------------
(* The session *)

\* The jobs that are selected, and all that they depend on.
RECURSIVE Needed(_)
Needed(js) ==
  LET more == js \cup UNION {Depends[j] : j \in js} IN IF more = js THEN js ELSE Needed(more)

\* Those that cannot be run, because of a job that is not known.
Unsolvable(jobs, desired) == {j \in desired : ~(Needed({j}) \subseteq jobs)}

RunList(jobs, desired) == Needed(desired \ Unsolvable(jobs, desired))

\* _get_matching_job_list()
Desired(jobs) == matched \cap jobs

\* update_desired_job_list(): its problems are added to those of before.
Select(jobs) ==
  /\ run_list' = RunList(jobs, Desired(jobs))
  /\ analyze_problem_list' = analyze_problem_list \cup Unsolvable(jobs, Desired(jobs))

---------------------------------------------------------------------------

AnalyzeTypeOK ==
  /\ known \subseteq Jobs /\ run_list \subseteq known /\ analyze_problem_list \subseteq Jobs
  /\ outcome \in [Jobs -> {"none", "pass", "fail"}] /\ reports \subseteq Reports
  /\ analyze_at \in {"locals", "reports", "end"}

AnalyzeInit ==
  /\ known \in Builtin /\ matched \in Patterns
  /\ run_local \in BOOLEAN /\ reports \in SUBSET Reports
  /\ run_list = RunList(known, Desired(known))
  /\ analyze_problem_list = Unsolvable(known, Desired(known))
  /\ outcome = [j \in Jobs |-> "none"] /\ runs = [j \in Jobs |-> 0]
  /\ printed = [r \in Reports |-> {}]
  /\ analyze_at = IF run_local THEN "locals" ELSE "reports"

\* The local jobs without a result.
Waiting == {j \in run_list : Plugin[j] = "local" /\ outcome[j] = "none"}

\* A local job is run, whether its dependencies were or not.  It passes or
\* fails, and if it fails it may have printed some of its jobs.
RunLocalJob(j, result, generated) ==
  /\ analyze_at = "locals" /\ j \in Waiting
  /\ result = "pass" => generated = Generates[j]
  /\ runs' = [runs EXCEPT ![j] = @ + 1]
  /\ outcome' = [outcome EXCEPT ![j] = result]
  /\ known' = known \cup generated
  /\ Select(known \cup generated)
  /\ UNCHANGED <<matched, run_local, reports, printed, analyze_at>>

NoneLeft ==
  /\ analyze_at = "locals" /\ Waiting = {}
  /\ analyze_at' = "reports"
  /\ UNCHANGED <<known, matched, run_local, reports, run_list, analyze_problem_list, outcome,
                 runs, printed>>

\* The dependency report has the problems, that of interactivity the jobs that
\* ask the user; the statistics are those of the beginning.
PrintList ==
  /\ analyze_at = "reports"
  /\ analyze_at' = "end"
  /\ printed' = [r \in Reports |->
       CASE r \notin reports -> {}
         [] r = "dependencies" -> analyze_problem_list
         [] r = "interactivity" -> {j \in run_list : Plugin[j] \in Interactive}
         [] OTHER -> {}]
  /\ UNCHANGED <<known, matched, run_local, reports, run_list, analyze_problem_list, outcome,
                 runs>>

AnalyzeNext ==
  \/ \E j \in Jobs, result \in {"pass", "fail"} :
       \E generated \in SUBSET Generates[j] : RunLocalJob(j, result, generated)
  \/ NoneLeft \/ PrintList

---------------------------------------------------------------------------
(* Properties *)

\* Each local job is run once at most, also one that fails or prints itself.
EachLocalRunsOnce == \A j \in Jobs : runs[j] <= 1

\* When the reports are made every local job that can be run was run, those
\* that were generated by others too, and what they printed is known.
AllLocalsWereRun ==
  (analyze_at # "locals" /\ run_local) =>
    \A j \in Desired(known) \ Unsolvable(known, Desired(known)) :
      Plugin[j] = "local" =>
        runs[j] = 1 /\ (outcome[j] = "pass" => Generates[j] \subseteq known)

\* The dependency report has every job that is selected and cannot be run.
ProblemsAreReported ==
  (analyze_at = "end" /\ "dependencies" \in reports) =>
    Unsolvable(known, Desired(known)) \subseteq printed["dependencies"]
=============================================================================
