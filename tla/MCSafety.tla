------------------------------ MODULE MCSafety ------------------------------
(***************************************************************************)
(* Components of both programs of which only safety properties are         *)
(* checked, side by side: a behaviour is one of the component `part', and  *)
(* the others stay as they are.  No fairness is assumed.                   *)
(***************************************************************************)
EXTENDS Naturals, Sequences, SequencesExt, FiniteSets, TLC

VARIABLE part

-----------------------------------------------------------------------------
(* What the runner makes of jobs: a resource job and a shell job whose     *)
(* names have the same slug; an interactive job and one that is not        *)
(* supported; an interactive job and one without a command.                *)

VARIABLES jobs, dry_run, callback, results, answers, run_at, run_job, logs,
          saved_results, runs, deaths, killed

runner_vars == <<jobs, dry_run, callback, results, answers, run_at, run_job,
  logs, saved_results, runs, deaths, killed>>

CONSTANTS MaxRuns, MaxRecords, MaxDeaths

RunJob(name, plugin, command, file) ==
  [name |-> name, plugin |-> plugin, command |-> command, file |-> file]

JobSets ==
  {{RunJob("a b", "resource", TRUE, "a_b"), RunJob("a_b", "shell", TRUE, "a_b")},
   {RunJob("m", "user-verify", TRUE, "m"), RunJob("u", "qml", FALSE, "u")},
   {RunJob("m", "user-verify", TRUE, "m"), RunJob("n", "shell", FALSE, "n")}}

-----------------------------------------------------------------------------
(* The trusted launcher: root jobs, one of them with a variable; a local   *)
(* job for the user whose output depends on that variable and on the       *)
(* machine, and which prints a local job; and a local job for root.        *)

VARIABLES source, environ, config, launch_known, installed, machine, printed,
          last

launcher_vars == <<source, environ, config, launch_known, installed, machine,
  printed, last>>

RootJob(name, plugin, user, variables) ==
  [name |-> name, plugin |-> plugin, user |-> user, environ |-> variables]

RootV == RootJob("r", "shell", "root", {"V"})
RootPlain == RootJob("r", "shell", "root", {})
ChildPlain == RootJob("s", "shell", "root", {})
ChildV == RootJob("s", "shell", "root", {"V"})
ChildDocked == RootJob("t", "shell", "root", {"V"})
LocalUser == RootJob("l", "local", "none", {"V"})
LocalRoot == RootJob("m", "local", "root", {})
LocalChild == RootJob("n", "local", "none", {})
GrandChild == RootJob("o", "shell", "root", {})

Prints(local, env, state) ==
  CASE local = LocalUser ->
         {ChildPlain} \cup (IF env["V"] # "unset" THEN {LocalChild} ELSE {})
           \cup (IF state = "docked" THEN {ChildDocked} ELSE {})
    [] local = LocalRoot -> {RootV, ChildV}
    [] local = LocalChild -> {GrandChild}
    [] OTHER -> {}

Execution == INSTANCE JobExecution WITH
  at <- run_at, runner_job <- run_job, disk <- logs, saved <- saved_results,
  runner_jobs <- jobs, Provided <- {RootV, LocalUser, LocalRoot},
  Upgrades <- {{RootPlain, LocalUser, LocalRoot}, {RootV, LocalRoot}},
  Machines <- {"docked", "undocked"}, Vars <- {"V"}, Values <- {"1", "x=y"}, Splits <- {"x=y"},
  known <- launch_known

-----------------------------------------------------------------------------
(* Records: everything of up to four lines of nine kinds is read, and      *)
(* records of one or two fields of up to three lines are written and read. *)

VARIABLES message, input, read_at, data, line_start, line_end, key,
          value_list, output, error

records_vars == <<message, input, read_at, data, line_start, line_end, key,
  value_list, output, error>>

Record == INSTANCE RecordParser WITH
  Inputs <- {}, Messages <- {}, at <- read_at

Lines ==
  {Record!Blank, Record!Spaces, Record!Comment, Record!Other, Record!More("a"),
   Record!More(""), Record!More("."), Record!Field("k", "a"), Record!Field("l", "")}

Values == UNION {[1..n -> {"a", "", ".", "spaces"}] : n \in 1..3}

Records == INSTANCE RecordParser WITH
  at <- read_at,
  Inputs <- UNION {[1..n -> Lines] : n \in 0..4},
  Messages <- {Record!NoData} \cup {("k" :> v) : v \in Values}
                \cup {("k" :> v) @@ ("l" :> <<"a">>) : v \in Values}

-----------------------------------------------------------------------------
(* A test that the user is asked about, in each interface: shown twice,    *)
(* with its command run three times.                                       *)

VARIABLES ui, test, manual_at, answer, comment, direction, clicks, shown,
          test_runs, before, said, typed

manual_vars == <<ui, test, manual_at, answer, comment, direction, clicks,
  shown, test_runs, before, said, typed>>

CONSTANTS MaxShown, MaxTestRuns

Manual == INSTANCE ManualTest WITH
  Interfaces <- {"gtk", "qt", "urwid", "cli", "none"}, Texts <- {"", "x"},
  MaxRuns <- MaxTestRuns, at <- manual_at, runs <- test_runs

-----------------------------------------------------------------------------
(* The objects on the bus: two sessions of a provider with a job that      *)
(* generates another.                                                      *)

VARIABLES bus, unpublished, announced, bus_jobs, bus_results, reported, hint,
          last_saved, owners, generated, resumed

bus_vars == <<bus, unpublished, announced, bus_jobs, bus_results, reported,
  hint, last_saved, owners, generated, resumed>>

CONSTANTS BusSessions, MaxReported

-----------------------------------------------------------------------------
(* What clients are told of objects: two equal results, one of which is on *)
(* the bus at a time, and a third.                                         *)

VARIABLES exported, ever, path_map, managed, bus_outcome, known, stopped

notices_vars == <<exported, ever, path_map, managed, bus_outcome, known,
  stopped>>

CONSTANT MaxManaged

-----------------------------------------------------------------------------
(* The properties of two results, one of which may be that of a job with a *)
(* command.                                                                *)

VARIABLES dicts, shown_results, client_knows, set_reply

results_vars == <<dicts, shown_results, client_knows, set_reply>>

Bus == INSTANCE BusObjects WITH
  Sessions <- BusSessions, Local <- "L", Builtin <- {"L"}, Generated <- <<"G">>,
  ObjectsMaxResults <- MaxReported, job_list <- bus_jobs, result <- bus_results,
  saved <- last_saved, Wrappers <- {"r", "equal", "other"}, NoticesOutcomes <- {"pass"},
  notices_outcome <- bus_outcome, PathOf <- [r |-> "p", equal |-> "p", other |-> "q"],
  notices_known <- known, results <- shown_results, result_known <- client_knows,
  reply <- set_reply, Comments <- {"", "note"}, ResultMaxResults <- 2

-----------------------------------------------------------------------------
(* The option maps of checkbox: two names, a list that was loaded, three   *)
(* calls.                                                                  *)

VARIABLES maps, readonly, modified, clean, last_call, calls

options_vars == <<maps, readonly, modified, clean, last_call, calls>>

CONSTANT MaxCalls

Options == INSTANCE PersistMaps WITH
  Paths <- {<<[name |-> "a", index |-> 0]>>,
            <<[name |-> "a", index |-> 0], [name |-> "b", index |-> 0]>>,
            <<[name |-> "a", index |-> 0], [name |-> "", index |-> -1]>>},
  Values <- {"b"}, Lists <- {<<"b", "c">>}, call <- last_call

-----------------------------------------------------------------------------
(* The configuration: two files with the provider, a variable of jobs, and *)
(* DEFAULT.                                                                *)

VARIABLES files, config_at, config_pc, parsed, filename_list, problem_list,
          variable, environment

config_vars == <<files, config_at, config_pc, parsed, filename_list,
  problem_list, variable, environment>>

Chosen(section, name, value) == IF value = "" THEN {} ELSE {[section |-> section, name |-> name, value |-> value]}

ConfigContents ==
  {[options |-> Chosen("common", "default_provider", p) \cup Chosen("environment", "X", x)
                  \cup Chosen("DEFAULT", d, "deb"),
    error |-> e] : p \in {"", "src", "bad"}, x \in {"", "1", "%"},
                   d \in {"default_provider", "PATH"}, e \in {"none", "syntax", "header"}}

-----------------------------------------------------------------------------
(* The program plainbox: with and without a directory for logs, one entry  *)
(* point that may fail to load, every way to name the provider.            *)

VARIABLES argv, tool_machine, configured, tool_at, levels, unloaded,
          tool_plugins, provider, work, tool_caught, exit_status, tool_said

tool_vars == <<argv, tool_machine, configured, tool_at, levels, unloaded,
  tool_plugins, provider, work, tool_caught, exit_status, tool_said>>

ToolArguments ==
  {[checkbox |-> c, level |-> l, trace |-> t, console |-> d, pdb |-> p, debug_interrupt |-> p,
    asks |-> a] :
     c \in {"none", "src"}, l \in {"none", "DEBUG", "CRITICAL"},
     t \in {{}, {"plugins"}}, d \in {FALSE}, p \in BOOLEAN,
     a \in {"script", "crash"}}
  \cup
  {[checkbox |-> c, level |-> "DEBUG", trace |-> {}, console |-> TRUE, pdb |-> FALSE,
    debug_interrupt |-> FALSE, asks |-> a] :
     c \in {"none", "ihv", "stub", "auto", "wrong"},
     a \in {"help", "bad", "nothing", "script", "parse", "list", "self-test", "crash"}}

EntryPoint(n, how) == [name |-> n, loads |-> how]

ToolMachines ==
  {[loads |-> <<EntryPoint("checkbox-auto", "ok"), EntryPoint("checkbox-deb", "ok"),
                EntryPoint("checkbox-src", "ok"), EntryPoint("ihv", how),
                EntryPoint("stubbox", "ok")>>,
    dirs |-> d, log_dir |-> l] :
     how \in {"ok", "ImportError", "fails"}, d \in SUBSET {"src", "deb"}, l \in BOOLEAN}

-----------------------------------------------------------------------------
(* The analysis of jobs: two local jobs, of which one prints the other,    *)
(* itself and jobs that depend on ones that are known later or never.      *)

VARIABLES an_known, an_matched, an_local, an_reports, an_run_list,
          an_problems, an_outcome, an_runs, an_printed, an_at

analyze_vars == <<an_known, an_matched, an_local, an_reports, an_run_list,
  an_problems, an_outcome, an_runs, an_printed, an_at>>

AnPlugin == [l1 |-> "local", l2 |-> "local", m |-> "manual", s |-> "shell", gone |-> "shell"]
AnDepends == [l1 |-> {}, l2 |-> {"s"}, m |-> {"l1"}, s |-> {}, gone |-> {}] @@ [x |-> {"gone"}]
AnGenerates == [l1 |-> {"l1", "l2", "m"}, l2 |-> {"s", "x"}, m |-> {}, s |-> {}, gone |-> {}, x |-> {}]

Tool == INSTANCE PlainBoxTool WITH
  config_at <- config_at, Contents <- ConfigContents, FileCount <- 2,
  Variables <- <<"secure_id", "default_provider">>,
  SectionOf <- [v \in {"secure_id", "default_provider"} |->
                  IF v = "secure_id" THEN "sru" ELSE "common"],
  DefaultOf <- [v \in {"secure_id", "default_provider"} |->
                  IF v = "secure_id" THEN "unset" ELSE "auto"],
  Valid <- [v \in {"secure_id", "default_provider"} |->
              IF v = "secure_id" THEN {"valid id"} ELSE {"auto", "src", "deb"}],
  UserEnvironment <- {"PATH"}, config_problem_list <- problem_list, tool_at <- tool_at,
  caught <- tool_caught, machine <- tool_machine, plugins <- tool_plugins, said <- tool_said,
  Arguments <- ToolArguments, Machines <- ToolMachines,
  Configured <- {"auto", "deb", "bad", "broken"}, Plugin <- AnPlugin @@ [x |-> "shell"],
  Depends <- AnDepends, Generates <- AnGenerates,
  Builtin <- {{"l1"}, {"l1", "s"}, {"l1", "l2", "s"}},
  Patterns <- {{"l1", "l2", "m"}, {"l1", "l2", "m", "s", "x"}, {"m", "x"}}, known <- an_known,
  matched <- an_matched, run_local <- an_local, reports <- an_reports, run_list <- an_run_list,
  analyze_problem_list <- an_problems, outcome <- an_outcome, runs <- an_runs,
  printed <- an_printed, analyze_at <- an_at

-----------------------------------------------------------------------------
(* The report of a session with a manual and a shell test, an attachment,  *)
(* a local job, and one resource.                                          *)

VARIABLES given, exported_results, resources, export_pc, result_map, report,
          entry, saved, sent, told

export_vars == <<given, exported_results, resources, export_pc, result_map,
  report, entry, saved, sent, told>>

ExportPlugin ==
  ("attachment" :> "attachment") @@ ("category" :> "local") @@ ("check" :> "shell")
    @@ ("look" :> "manual")

ExportOutcomes ==
  ("attachment" :> {"pass"}) @@ ("category" :> {"fail"})
    @@ ("check" :> {"none", "pass"}) @@ ("look" :> {"not-supported", "pass", "undecided"})

ExportTexts ==
  ("attachment" :> {"nothing", "control"}) @@ ("category" :> {"nothing"})
    @@ ("check" :> {"nothing", "long", "binary"}) @@ ("look" :> {"nothing", "control"})

-----------------------------------------------------------------------------
(* The sheet of a session with two local jobs, which may have generated    *)
(* each other, two tests and a resource.                                   *)

VARIABLES sheet_results, xlsx_pc, sheet_stack, category_status, totals, rows

sheet_vars == <<sheet_results, xlsx_pc, sheet_stack, category_status, totals,
  rows>>

SheetJob(plugin, via, outcome, described) ==
  [plugin |-> plugin, via |-> via, outcome |-> outcome, described |-> described]

SheetResults(audio, music, play, tune) ==
  ("audio" :> SheetJob("local", audio, "pass", TRUE)) @@ ("music" :> music) @@ ("play" :> play)
    @@ ("sink" :> SheetJob("resource", "audio", "pass", TRUE)) @@ ("tune" :> tune)

Sheets ==
  {SheetResults(audio, SheetJob("local", via, o, d), SheetJob("shell", play, p, TRUE),
                SheetJob("manual", tune, t, TRUE)) :
     audio \in {"", "music"}, via \in {"", "audio"}, play \in {"", "audio", "music"},
     tune \in {"", "audio", "music"}, o \in {"pass", "fail"}, p \in {"pass", "fail"},
     t \in {"pass", "skip"}, d \in BOOLEAN}

Exporting == INSTANCE Exporters WITH
  results <- exported_results, Plugin <- ExportPlugin,
  SortedNames <- <<"attachment", "category", "check", "look">>, Outcomes <- ExportOutcomes,
  Texts <- ExportTexts, ResourceNames <- {"lsb"}, RecordStates <- {"empty", "full"},
  report_result_map <- result_map, sheet_result_map <- sheet_results, stack <- sheet_stack,
  ResultMaps <- Sheets

-----------------------------------------------------------------------------
(* The events of a document with its sections and summary in several       *)
(* orders, with two parts of udev.                                         *)

VARIABLES document, position, listeners, event_calls, submission_pc, test_run

events_vars == <<document, position, listeners, event_calls, submission_pc,
  test_run>>

Item(tag, value, reply) == [tag |-> tag, value |-> value, answer |-> reply, comment |-> ""]

Question(name, reply) == Item("question", name, reply)

Summaries ==
  LET arch(a) == Item("architecture", a, "")
      dist == Item("distribution", "ubuntu", "")
      series == Item("distroseries", "12.04", "")
  IN {<<arch("amd64"), dist, series>>, <<dist, series, arch("i386")>>, <<series, arch("i386"), dist>>,
      <<dist, series, arch("armhf")>>, <<arch("amd64"), dist>>}

Questions ==
  {<<Question("play", "yes"), Question("tune", "no"), Question("play", "pass")>>,
   <<Question("tune", "skip"), Question("odd", "pass"), Question("play", "no"), Question("odd", "no")>>,
   <<Question("play", "fail"), Question("tune", "none"), Question("odd", "pass")>>}

Udev == <<Item("udev", "hardware", ""), Item("udev", "context", "")>>

UdevDevices == [hardware |-> <<"disk", "card">>, context |-> <<"disk2">>]

InfoItem(command, text) == [tag |-> "info", value |-> command, answer |-> "", comment |-> text]

SummaryOrders ==
  LET arch == Item("architecture", "amd64", "")
      dist == Item("distribution", "ubuntu", "")
      series == Item("distroseries", "12.04", "")
  IN {<<arch, dist, series>>, <<dist, arch, series>>, <<dist, series, arch>>}

SubmissionPackages ==
  LET package(name, version) == [tag |-> "package", value |-> name, answer |-> "", comment |-> version]
  IN <<package("libc", "2.15"), package("bash", "4.2"), package("libc", "2.15")>>

ContextItems(cpu) ==
  <<InfoItem("cat /proc/cpuinfo", cpu), InfoItem("dmidecode", "old dmi"), InfoItem("cat /proc/cpuinfo", "other"),
    InfoItem("cat /proc/meminfo", "memory"), InfoItem("lsusb", "Command not found.")>>

SubmissionParts ==
  LET processors(text) == <<Item("processors", text, ""), Item("dmi", "dmi", "")>>
      more == <<Item("kernel_release", "3.2", ""), Item("lsbrelease", "precise", "")>>
  IN {ContextItems("cpu") \o processors("list"), processors("parsed list") \o ContextItems("cpu") \o more,
      ContextItems("no cpu") \o processors("list"), ContextItems("no cpu") \o more \o processors("parsed list"),
      processors("no list") \o ContextItems("cpu")}

SubmissionDocuments ==
  UNION {{s \o q \o Udev, s \o Udev \o q, q \o s \o Udev, q \o Udev \o s, Udev \o s \o q, Udev \o q \o s,
          <<q[1]>> \o s \o Udev \o q} :
           s \in Summaries, q \in Questions}
  \cup UNION {{<<s[1], s[2]>> \o parts \o <<s[3]>> \o SubmissionPackages, SubmissionPackages \o parts \o s \o SubmissionPackages, s \o parts} :
           s \in SummaryOrders, parts \in SubmissionParts}

CpuLines ==
  <<[debian_name |-> "i386", gnu_name |-> "i486", bits |-> 32],
    [debian_name |-> "ia64", gnu_name |-> "ia64", bits |-> 64],
    [debian_name |-> "amd64", gnu_name |-> "x86_64", bits |-> 64]>>

CommandParsers ==
  ("cat /proc/cpuinfo" :> "cpuinfo") @@ ("cat /proc/meminfo" :> "meminfo")
  @@ ("dmidecode" :> "dmi") @@ ("lsusb" :> "")

DmiDevices ==
  ("dmi" :> <<[category |-> "SYSTEM", serial |-> "1234"], [category |-> "BOARD", serial |-> ""],
              [category |-> "DEVICE", serial |-> "5"]>>)
  @@ ("old dmi" :> <<[category |-> "SYSTEM", serial |-> "1234"]>>)

-----------------------------------------------------------------------------
(* The devices of udev: those of a card reader, of a network card and of a *)
(* keyboard, any of them missing, in both orders of what is beside a disk, *)
(* and a device of every kind alone.                                       *)

VARIABLES ud_dump, ud_next, ud_stack, ud_devices, ud_how

udev_vars == <<ud_dump, ud_next, ud_stack, ud_devices, ud_how>>

UdevRecord(path, env) == [path |-> path, env |-> env, broken |-> FALSE]

OfPci == UdevRecord(<<"pci">>, [SUBSYSTEM |-> "pci", PCI_CLASS |-> "SERIAL_USB", MODALIAS |-> "pci"])
OfUsb == UdevRecord(<<"pci", "usb">>, [SUBSYSTEM |-> "usb", ID_BUS |-> "usb", DRIVER |-> "usb",
  ID_MODEL_ENC |-> "Card Reader", ID_VENDOR_ENC |-> "Generic"])
OfNamelessUsb == UdevRecord(<<"pci", "usb">>, [SUBSYSTEM |-> "usb", ID_BUS |-> "usb"])
OfScsi(type) == UdevRecord(<<"pci", "usb", "0:0">>, [SUBSYSTEM |-> "scsi", DEVTYPE |-> "scsi_device",
  DRIVER |-> "sd", MODALIAS |-> type])
OfDisk == UdevRecord(<<"pci", "usb", "0:0", "block", "sda">>, [SUBSYSTEM |-> "block",
  DEVTYPE |-> "disk", ID_TYPE |-> "disk", ID_MODEL_ENC |-> "Card Reader", ID_VENDOR_ENC |-> "Generic"])
OfPartition == UdevRecord(<<"pci", "usb", "0:0", "block", "sda", "sda1">>,
  [SUBSYSTEM |-> "block", DEVTYPE |-> "partition", NAME |-> "sda1"])
OfGeneric == UdevRecord(<<"pci", "usb", "0:0", "sg0">>, [SUBSYSTEM |-> "scsi_generic", NAME |-> "sg0"])
OfWlan == UdevRecord(<<"pci", "wlan0">>, [SUBSYSTEM |-> "net", IFINDEX |-> "2", DEVTYPE |-> "wlan",
  PCI_CLASS |-> "NETWORK", ID_MODEL_FROM_DATABASE |-> "Wireless"])
OfBroken == [UdevRecord(<<"pci", "x">>, [SUBSYSTEM |-> "pci"]) EXCEPT !.broken = TRUE]

Parted(all) == {SelectSeq(all, LAMBDA r : r.path \in present) : present \in SUBSET {all[i].path : i \in DOMAIN all}}

\* Devices that are of their kind by one variable.
KindNames == [PCI_CLASS |-> {"NETWORK_WIRELESS", "NETWORK", "DISPLAY_VGA", "DISPLAY", "SCSI", "IDE",
    "COMMUNICATION_MODEM", "INPUT_SCANNER", "MULTIMEDIA_VIDEO", "MULTIMEDIA_AUDIO",
    "SERIAL_FIREWIRE", "WIRELESS_BLUETOOTH", "BRIDGE_PCMCIA", "BRIDGE"},
  INTERFACE |-> {"AUDIO", "PRINTER", "STORAGE_FLOPPY", "STORAGE_SCSI", "VIDEO",
    "WIRELESS_BLUETOOTH", "WIRELESS", "HUB"},
  KEY |-> {"Q to P", "CAMERA and MOUSE", "CAMERA", "TOUCH", "TOUCH and MOUSE", "MOUSE", "few"},
  DRIVER |-> {"sdhci", "mmc", "floppy", "sd"}, ID_TYPE |-> {"cd", "disk", "video"},
  RFKILL_TYPE |-> {"bluetooth", "wlan"},
  MODALIAS |-> {"acpi", "acpi_interrupt", "pci", "scsi disk", "scsi tape", "scsi printer",
    "scsi cdrom", "scsi scanner", "scsi raid", "none"},
  IFINDEX |-> {"3"}, ID_CDROM |-> {"1"}, ID_DRIVE_FLOPPY |-> {"1"}]

Lone(on, devtype, name, value) ==
  UdevRecord(<<"platform", "PNP0C14:00">>,
    name :> value @@ [SUBSYSTEM |-> on, DEVTYPE |-> devtype, TYPE |-> "0"]
      @@ IF name = "KEY" THEN [NAME |-> ""] ELSE [ID_MODEL_FROM_DATABASE |-> "Model"])

UdevDumps ==
  UNION {Parted(d) : d \in
    {<<OfPci, OfUsb, OfScsi("scsi disk"), OfDisk, OfPartition, OfGeneric, OfWlan>>,
     <<OfPci, OfWlan, OfUsb, OfScsi("scsi cdrom"), OfGeneric, OfDisk, OfPartition>>,
     <<OfPci, OfNamelessUsb, OfScsi("scsi disk"), OfDisk, OfBroken>>}}
  \cup UNION {{<<Lone(b, t, n, v)>> : v \in KindNames[n], t \in {"scsi_device", "disk"},
               b \in {"acpi", "sound", "ieee80211", "pnp", "platform"}} : n \in DOMAIN KindNames}

Parsers == INSTANCE SubmissionParsers WITH
  run <- test_run, calls <- event_calls, DevicesOf <- UdevDevices, DmiOf <- DmiDevices,
  ParserOf <- CommandParsers, Blank <- {"no cpu", "no list"}, Known <- {"parsed list"},
  Documents <- SubmissionDocuments, Cputable <- CpuLines, Refused <- {"odd"},
  Dumps <- UdevDumps, dump <- ud_dump, next <- ud_next, stack <- ud_stack,
  udev_devices <- ud_devices, how <- ud_how

-----------------------------------------------------------------------------
(* The sending of the report, with two tries, one redirect and an address, *)
(* a form and a report that may do or not.                                 *)

VARIABLES exchange_config, plugins, exchange_todo, exchange_pc,
          exchange_direction, exchange_errors, exchange_shown, submitted,
          request, servers, accepted, lost, linked, visits

exchange_vars == <<exchange_config, plugins, exchange_todo, exchange_pc,
  exchange_direction, exchange_errors, exchange_shown, submitted, request,
  servers, accepted, lost, linked, visits>>

CONSTANTS MaxTries, MaxRedirects, MaxVisits

Exchange == INSTANCE ReportExchange WITH
  config <- exchange_config, todo <- exchange_todo, direction <- exchange_direction,
  errors <- exchange_errors, shown <- exchange_shown

-----------------------------------------------------------------------------
(* The audio settings around a test: two sinks of one card, two sources,   *)
(* and three runs of the script.                                           *)

VARIABLES pulse, settings, profiles, audio_commands, buffer, audio_outcome,
          audio_action, profile_set, kept, touched, script_runs

audio_vars == <<pulse, settings, profiles, audio_commands, buffer,
  audio_outcome, audio_action, profile_set, kept, touched, script_runs>>

CONSTANT MaxScriptRuns

CardProfiles == [analog |-> "speaker", digital |-> "hdmi"]

PulseAtFirst ==
  {[profile |-> "analog", default |-> [source |-> "line", sink |-> "speaker"],
    muted |-> [n \in {"speaker", "hdmi", "mic", "line"} |-> n = "mic"],
    volume |-> [n \in {"speaker", "hdmi", "mic", "line"} |-> IF n = "speaker" THEN <<0, 50>> ELSE <<0, 0>>]]}

-----------------------------------------------------------------------------
(* The test of removable disks: two disks, one of which may not be         *)
(* mounted, be a memory card, have an unknown speed or not be known to     *)
(* udev; two files, or one in two iterations.                              *)

VARIABLES rt_machine, rt_asked, rt_at, rt_status, mounted, unmountable,
          directories, rt_data, rt_left, disk, iteration, rt_file, targets,
          rt_files, stuck, verified, unread, rt_errors, fast

removable_vars == <<rt_machine, rt_asked, rt_at, rt_status, mounted,
  unmountable, directories, rt_data, rt_left, disk, iteration, rt_file,
  targets, rt_files, stuck, verified, unread, rt_errors, fast>>

Plain == [bus |-> "usb", drive |-> TRUE, udev |-> TRUE, card |-> FALSE, mounted |-> TRUE, speed |-> 2]

RemovableMachines ==
  {[d1 |-> x, d2 |-> y] :
     x \in {[Plain EXCEPT !.mounted = FALSE], [Plain EXCEPT !.speed = 0]},
     y \in {Plain, [Plain EXCEPT !.mounted = FALSE], [Plain EXCEPT !.card = TRUE],
            [Plain EXCEPT !.bus = "ata"], [Plain EXCEPT !.udev = FALSE],
            [Plain EXCEPT !.speed = 1]}}

RemovableAsked ==
  {[buses |-> {"usb"}, card |-> FALSE, list |-> l, skip_not_mount |-> s, min_speed |-> m,
    pass_speed |-> p, iterations |-> n[1], count |-> n[2]] :
     l \in {FALSE}, s \in BOOLEAN, m \in {0, 2}, p \in {FALSE}, n \in {<<1, 2>>, <<2, 1>>}}
  \cup
  {[buses |-> {"usb"}, card |-> FALSE, list |-> l, skip_not_mount |-> FALSE, min_speed |-> 0,
    pass_speed |-> ~l, iterations |-> 1, count |-> 1] : l \in BOOLEAN}

-----------------------------------------------------------------------------
(* The test of the frequency governors: two processors, with and without   *)
(* the selector; all four governors, or all but userspace, and powersave.  *)

VARIABLES gt_system, gt_todo, gt_at, governor, frequency, selector, low_time,
          high_time, success, limits, refused, ran, gt_status

governors_vars == <<gt_system, gt_todo, gt_at, governor, frequency, selector,
  low_time, high_time, success, limits, refused, ran, gt_status>>

Governors == {"userspace", "ondemand", "performance", "conservative", "powersave"}

GovernorSystems ==
  {[governors |-> g, original |-> 0 :> a @@ 1 :> b, selector |-> s] :
     g \in {Governors, Governors \ {"userspace"}}, a \in {"powersave", "ondemand"},
     b \in {"performance", "ondemand"}, s \in BOOLEAN}

Scripts == INSTANCE TestScripts WITH
  commands <- audio_commands, action <- audio_action, runs <- script_runs,
  MaxRuns <- MaxScriptRuns, SinkOf <- CardProfiles, Sources <- {"mic", "line"},
  Volumes <- {0, 50}, Settings <- PulseAtFirst,
  Matching <- [pci |-> {"speaker", "mic", "line"}, hdmi |-> {"hdmi"}], machine <- rt_machine,
  asked <- rt_asked, removable_at <- rt_at, removable_status <- rt_status, data <- rt_data,
  left <- rt_left, file <- rt_file, files <- rt_files, errors <- rt_errors,
  Disks <- {"d1", "d2"}, Machines <- RemovableMachines, Asked <- RemovableAsked,
  system <- gt_system, todo <- gt_todo, governors_at <- gt_at, governors_status <- gt_status,
  CPUs <- {0, 1}, Systems <- GovernorSystems

-----------------------------------------------------------------------------
(* The requirement programs of one or two lines: of what is accepted, of   *)
(* every reason to be rejected, and calls.                                 *)

VARIABLES requirement_program, resource_map, expressions, nodes, names_seen,
          phase, current, resource_records, program_outcome

programs_vars == <<requirement_program, resource_map, expressions, nodes,
  names_seen, phase, current, resource_records, program_outcome>>

Node(class, id, children) == [class |-> class, id |-> id, children |-> children]

Line(trees) == Node("Module", "", [i \in DOMAIN trees |-> Node("Expr", "", <<trees[i]>>)])

OneLine(tree) == Line(<<tree>>)

Named(id) == Node("Name", id, <<>>)

Text(id) == Node("Str", id, <<>>)

Field(resource, id) == Node("Attribute", id, <<Named(resource)>>)

Infix(class, left, op, right) == Node(class, "", <<left, Node(op, "", <<>>), right>>)

CallOf(func, value) == Node("Call", "", <<func, value>>)

IsFwts == Infix("Compare", Field("package", "name"), "Eq", Text("fwts"))

ProgramLines ==
  {OneLine(IsFwts),
   OneLine(Infix("BoolOp", IsFwts, "And", Field("package", "version"))),
   OneLine(Infix("BoolOp", Infix("Compare", Field("package", "version"), "Eq", Text("2")), "Or", IsFwts)),
   OneLine(Infix("Compare", Field("module", "name"), "NotEq", Text("oss"))),
   OneLine(Infix("BoolOp", IsFwts, "And", CallOf(Named("int"), Field("package", "version")))),
   OneLine(Infix("BoolOp", IsFwts, "And", CallOf(Named("bool"), Field("module", "name")))),
   OneLine(Infix("Compare", Field("package", "name"), "Eq", Field("module", "name"))),
   OneLine(CallOf(Named("int"), Field("package", "version"))),
   OneLine(CallOf(Named("open"), Field("package", "name"))),
   OneLine(CallOf(Field("package", "name"), Text("fwts"))),
   OneLine(Node("UnaryOp", "", <<Node("Not", "", <<>>), Field("package", "name")>>)),
   OneLine(Infix("BinOp", Field("package", "name"), "Add", Text("x"))),
   Line(<<IsFwts, IsFwts>>)}

TwoLines ==
  {<<a, b>> : a \in {OneLine(IsFwts), OneLine(Infix("Compare", Field("module", "name"), "NotEq", Text("oss")))},
              b \in ProgramLines}

RecordLists ==
  LET fwts(v) == [name |-> "fwts", version |-> v]
      bare == [name |-> "fwts"]
      oss == [name |-> "oss", version |-> "2"]
  IN {[package |-> <<oss, fwts(v)>>] : v \in {"2", "0", ""}}
       \cup {[package |-> <<bare, oss>>, module |-> m] : m \in {<<>>, <<oss>>, <<oss, fwts("x")>>}}
       \cup {[module |-> <<bare>>]}

Requirements == INSTANCE RequirementPrograms WITH
  program <- requirement_program, records <- resource_records, outcome <- program_outcome,
  Programs <- {<<l>> : l \in ProgramLines} \cup TwoLines, ResourceMaps <- RecordLists, Digits <- {"0", "2"}

-----------------------------------------------------------------------------
(* The start of checkbox: a file of up to three settings and an include,   *)
(* which gives the plugins, and up to two overrides; two plugins, the      *)
(* section of one of which a pattern matches, too.                         *)

VARIABLES setup, start_at, reading, defaults, unjoined, sections,
          start_overrides, todo, attributes, start_given

start_vars == <<setup, start_at, reading, defaults, unjoined, sections,
  start_overrides, todo, attributes, start_given>>

CONSTANT MaxIncludes

Lit(t) == [ref |-> "", text |-> t]
Ref(k) == [ref |-> k, text |-> ""]
Setting(s, k, v) == [section |-> s, key |-> k, value |-> v]

Included ==
  <<Setting("DEFAULT", "version", Lit("1")), Setting("DEFAULT", "plugins", Lit("plugins")),
    Setting("plugins", "modules", Lit("all")), Setting("plugins/a", "on", Lit("yes"))>>

Optional ==
  {Setting("DEFAULT", "on", Lit("no")), Setting("DEFAULT", "checkbox_dir", Lit("inc")),
   Setting("DEFAULT", "n", Lit("many")), Setting("plugins/b", "n", Lit("1")),
   Setting("plugins", "whitelist", Lit("a b")), Setting("plugins", "blacklist", Lit("a")),
   Setting("plugins/ab", "dir", Ref("checkbox_dir")), Setting("plugins/ab", "on", Ref("checkbox_dir"))}

\* No option twice, and no section in two places.
IsFile(f) ==
  \A i, j \in DOMAIN f : i < j /\ f[i].section = f[j].section =>
    /\ f[i].key # f[j].key
    /\ f[i].section = "DEFAULT" \/ \A k \in i..j : f[k].section = f[i].section

StartFiles ==
  {f \in {d \o <<Setting("DEFAULT", "includes", inc)>> \o e :
           inc \in {Lit("inc"), Lit("main"), Ref("checkbox_dir")},
           d \in {<<>>} \cup {<<x>> : x \in Optional} \cup {<<x, y>> : x, y \in Optional},
           e \in {<<>>} \cup {<<x>> : x \in Optional} \cup {<<x, y>> : x, y \in Optional}} :
     IsFile(f)}

Override(name, k, v) == [name |-> name, key |-> k, value |-> Lit(v)]

StartSetups ==
  {[files |-> "main" :> f @@ "inc" :> Included, environment |-> env, overrides |-> o] :
     f \in {f \in StartFiles : Len(f) <= 3},
     env \in {"checkbox_dir" :> "inc", "checkbox_dir" :> "/", <<>>},
     o \in {<<>>, <<Override("p.*/a", "on", "true")>>,
            <<Override("p.*/a", "on", "true"), Override("plugins/ab", "on", "no")>>}}

Starting == INSTANCE PluginStart WITH
  overrides <- start_overrides, given <- start_given, Setups <- StartSetups,
  Attributes <- [a  |-> [on |-> [type |-> "bool", default |-> Lit("no"), required |-> TRUE]],
                 ab |-> [on |-> [type |-> "bool", default |-> Lit("no"), required |-> TRUE],
                         dir |-> [type |-> "str", default |-> Ref("checkbox_dir"), required |-> TRUE]],
                 b  |-> [n |-> [type |-> "int", default |-> Lit("None"), required |-> FALSE]]],
  SectionOf <- [a |-> "plugins/a", ab |-> "plugins/ab", b |-> "plugins/b"],
  Patterns <- "p.*/a" :> {"plugins/a", "plugins/ab"} @@ "plugins/ab" :> {"plugins/ab"},
  Found <- "all" :> {"a", "ab", "b"}, NamedBy <- "a b" :> {"a", "b"} @@ "a" :> {"a"},
  Yes <- {"yes", "true"}, No <- {"no"}, Integers_ <- {"1"}

-----------------------------------------------------------------------------
(* The report of checkbox: two tests, the attachments of three machines, a *)
(* system id of the configuration or none; two reports, one answer, two    *)
(* starts.                                                                 *)

VARIABLES sr_at, sr_resources, sr_results, sr_attached, sr_document,
          sr_configured, fingerprint, sr_persist, sr_saved, sr_id, sr_file,
          sr_announced, sr_built, sr_failed, sr_reports, sr_answers, sr_starts

sysreport_vars == <<sr_at, sr_resources, sr_results, sr_attached, sr_document,
  sr_configured, fingerprint, sr_persist, sr_saved, sr_id, sr_file,
  sr_announced, sr_built, sr_failed, sr_reports, sr_answers, sr_starts>>

AttachmentSets ==
  {<<[part |-> "udev", kind |-> "plain", unsupported |-> FALSE],
     [part |-> "context", kind |-> "binary", unsupported |-> FALSE],
     [part |-> "context", kind |-> "plain", unsupported |-> FALSE]>>,
   <<[part |-> "dmi", kind |-> "plain", unsupported |-> FALSE],
     [part |-> "context", kind |-> "page break", unsupported |-> FALSE]>>}

-----------------------------------------------------------------------------
(* Reports as XML: dicts of every kind of value, with names that have a    *)
(* handler and with others, and the entries of a report.                   *)

VARIABLES rv_value, styled, rv_dumped, rv_loaded, rv_stage

values_vars == <<rv_value, styled, rv_dumped, rv_loaded, rv_stage>>

RvScalar(t, d) == [type |-> t, data |-> d, items |-> <<>>]
RvDict(pairs) == [type |-> "dict", data |-> "", items |-> pairs]
RvList(vs) == [type |-> "list", data |-> "", items |-> vs]

RvScalars == {RvScalar("str", "text"), RvScalar("str", ""), RvScalar("int", "1"), RvScalar("long", "2"),
              RvScalar("bool", "True"), RvScalar("float", "1.5"), RvScalar("none", ""),
              RvScalar("bytes", "b"), RvScalar("object", "o")}
RvFlat == RvScalars \cup {RvList(<<RvScalar("str", "text")>>), RvList(<<>>), RvDict(<<>>)}
RvNames == {"key", "value", "list", "int", "default", "properties", "architecture"}
RvNested == {RvDict(<<<<n, v>>>>) : n \in RvNames, v \in RvFlat} \cup RvFlat

RvEntry(v) == RvDict(<<<<"name", RvScalar("str", "bash")>>, <<"version", v>>>>)

RvReports ==
  {RvDict(<<<<"hardware", a>>, <<"software", b>>>>) : a \in RvNested, b \in RvFlat}
  \cup {RvDict(<<<<"packages", RvList(<<RvEntry(v), RvEntry(RvScalar("int", "3"))>>)>>,
                 <<"processors", RvList(<<RvEntry(w)>>)>>>>) : v \in RvFlat, w \in RvFlat}
  \cup {RvDict(<<<<"client", RvDict(<<<<"name", RvScalar("str", "checkbox")>>,
                                     <<"version", RvScalar("str", "1")>>>>)>>,
                 <<"context", RvList(<<RvDict(<<<<"command", RvScalar("str", "ls")>>,
                                                <<"data", v>>>>)>>)>>,
                 <<"date_created", RvScalar("str", "2013")>>,
                 <<"live_cd", RvScalar("bool", "False")>>,
                 <<"lsbrelease", RvDict(<<<<"release", v>>>>)>>,
                 <<"questions", RvList(<<RvDict(<<<<"answer", RvScalar("str", "pass")>>,
                                                  <<"comment", v>>,
                                                  <<"name", RvScalar("str", "test")>>>>)>>)>>,
                 <<"system_id", RvScalar("str", "id")>>>>) : v \in {RvScalar("str", "text"), RvScalar("str", "")}}
  \cup {RvDict(<<<<"udev", RvScalar("str", "P: /devices")>>>>)}

Reporting == INSTANCE SystemReport WITH
  at <- sr_at, resources <- sr_resources, results <- sr_results, attached <- sr_attached,
  persist <- sr_persist, saved <- sr_saved, system_id <- sr_id, file <- sr_file,
  failed <- sr_failed, document <- sr_document, configured <- sr_configured,
  announced <- sr_announced, built <- sr_built, answers <- sr_answers, reports <- sr_reports,
  starts <- sr_starts, Tests <- {"t1", "t2"}, SystemStatuses <- {"uninitiated", "pass"},
  Resources <- {"cpuinfo", "lsb"}, Attachments <- AttachmentSets,
  ConfiguredIds <- {"configured", "none"}, Fingerprints <- {"old", "none"}, NoId <- "none",
  MaxReports <- 2, MaxAnswers <- 1, MaxStarts <- 2, Values <- RvReports, Stylesheets <- BOOLEAN,
  value <- rv_value, dumped <- rv_dumped, loaded <- rv_loaded, stage <- rv_stage

-----------------------------------------------------------------------------
(* Values that are pickled: scalars, and lists, tuples and dicts of them,  *)
(* two deep, cut short anywhere or followed by other bytes.                *)

VARIABLES pk_value, pk_bytes, pk_pickled, pk_loaded, pk_stage, pk_cut

pickle_vars == <<pk_value, pk_bytes, pk_pickled, pk_loaded, pk_stage, pk_cut>>

PkScalar(t, d) == [type |-> t, data |-> d, items |-> <<>>]
PkOf(t, is) == [type |-> t, data |-> <<>>, items |-> is]

PkFlat == {PkScalar("bool", <<"1">>), PkScalar("int", <<"2">>), PkScalar("float", <<"3">>),
           PkScalar("bytes", <<"a">>), PkScalar("str", <<>>), PkScalar("str", <<"l", ";">>),
           PkScalar("none", <<>>)}
PkScalars == {PkScalar("bool", <<"1">>), PkScalar("str", <<"l", ";">>), PkScalar("none", <<>>)}
PkDeep(vs) == {PkOf("list", <<>>), PkOf("dict", <<>>)}
  \cup {PkOf(t, <<v>>) : t \in {"list", "tuple"}, v \in vs}
  \cup {PkOf("list", <<v, w>>) : v \in vs, w \in PkScalars}
  \cup {PkOf("dict", <<<<PkScalar("str", <<"k">>), v>>, <<PkScalar("str", <<"l">>), w>>>>) : v \in vs, w \in PkScalars}

PkValues == PkFlat \cup PkDeep(PkFlat \cup PkDeep({PkScalar("int", <<"2">>), PkScalar("str", <<"l", ";">>)}))

-----------------------------------------------------------------------------
(* The messages of jobs as they are in job files, and as they come out of  *)
(* the store, converted three times.                                       *)

VARIABLES original_message, coerced_message, unconverted, coerce_outcome,
          coercions, accepted_once

schemas_vars == <<original_message, coerced_message, unconverted,
  coerce_outcome, coercions, accepted_once>>

JobValue(type, text, items) == [type |-> type, text |-> text, items |-> items]

JobText(text) == JobValue("str", text, <<>>)

JobMessages ==
  LET job == [plugin |-> JobText("shell"), name |-> JobText("disk")]
      texts == {"3", "1.5", "a b", ""}
      lists == {JobText("a b"), JobText(""), JobValue("list", "", <<JobText("a"), JobText("b")>>),
                JobValue("list", "", <<JobText("a"), JobValue("None", "", <<>>)>>),
                JobValue("tuple", "", <<JobText("a")>>), JobValue("tuple", "", <<>>)}
      numbers == {JobText(t) : t \in texts} \cup {JobValue("int", "3", <<>>), JobValue("float", "1.5", <<>>)}
  IN  {job @@ [depends |-> l, timeout |-> t, duration |-> d] :
         l \in lists, t \in numbers, d \in numbers}
      \cup {[plugin |-> JobText("shell"), requires |-> l, duration |-> d] : l \in lists, d \in numbers}
      \cup {[name |-> JobText("disk"), plugin |-> v, timeout |-> JobText("3")] :
              v \in {JobValue("None", "", <<>>), JobText("local"), JobValue("int", "3", <<>>)}}
      \cup {job @@ [timeout |-> d, kind |-> JobText("a b")] : d \in numbers}

TextItems == ("a b" :> <<"a", "b">>) @@ ("" :> <<>>) @@ ("3" :> <<"3">>) @@ ("1.5" :> <<"1.5">>)

Formats == INSTANCE MessageFormats WITH
  Values <- PkValues, Tails <- {<<";">>, <<"i", "1">>}, pickle_value <- pk_value,
  bytes <- pk_bytes, pickled <- pk_pickled, loaded <- pk_loaded, stage <- pk_stage,
  cut <- pk_cut, original <- original_message, message <- coerced_message, todo <- unconverted,
  outcome <- coerce_outcome, accepted <- accepted_once, Messages <- JobMessages,
  Integers_ <- {"3"}, Floats <- {"1.5"}, ItemsOf <- TextItems, MaxCalls <- 3

-----------------------------------------------------------------------------
ASSUME PartsAssumption ==
  /\ Bus!BusAssumption

Parts == {"runner", "launcher", "records", "manual", "bus", "notices",
  "results", "options", "config", "tool", "analyze", "export", "sheet",
  "events", "udev", "exchange", "audio", "removable", "governors", "programs",
  "start", "sysreport", "values", "pickle", "schemas"}

vars == <<part, runner_vars, launcher_vars, records_vars, manual_vars,
  bus_vars, notices_vars, results_vars, options_vars, config_vars, tool_vars,
  analyze_vars, export_vars, sheet_vars, events_vars, udev_vars,
  exchange_vars, audio_vars, removable_vars, governors_vars, programs_vars,
  start_vars, sysreport_vars, values_vars, pickle_vars, schemas_vars>>

\* A component that is not looked at has one initial state.
Init ==
  /\ part \in Parts
  /\ Execution!RunnerInit
  /\ part # "runner" =>
       dry_run /\ callback /\ Cardinality(jobs) = 2
         /\ \A j \in jobs : j.plugin \in {"resource", "shell"} /\ j.command
  /\ Execution!LauncherInit
  /\ part # "launcher" =>
       source /\ machine = "docked"
         /\ environ = [v \in {"V"} |-> "unset"] /\ config = [v \in {"V"} |-> "unset"]
  /\ Records!Init
  /\ part # "records" =>
       input = <<>> /\ message = {}
  /\ Manual!Init
  /\ part # "manual" =>
       ui = "gtk" /\ test.status = "pass" /\ test.data = "" /\ ~test.command
  /\ Bus!ObjectsInit
  /\ part # "bus" =>
       last_saved = {}
  /\ IF part = "notices" THEN Bus!NoticesInit ELSE
       /\ exported = {} /\ ever = {} /\ path_map = <<>> /\ managed = <<>>
       /\ bus_outcome = <<>> /\ known = <<>> /\ stopped = FALSE
  /\ IF part = "results" THEN Bus!ResultInit ELSE
       /\ dicts = <<>> /\ shown_results = <<>> /\ client_knows = <<>>
       /\ set_reply = "ok"
  /\ Options!Init
  /\ part # "options" =>
       clean.items = {}
  /\ IF part = "config" THEN Tool!ConfigInit ELSE
       /\ files = [f \in 1..2 |-> {}] /\ config_at = 1 /\ config_pc = "files"
       /\ parsed = {} /\ filename_list = {} /\ problem_list = {}
       /\ variable = <<>> /\ environment = {}
  /\ IF part = "tool" THEN Tool!ToolInit ELSE
       /\ argv = <<>> /\ tool_machine = <<>> /\ configured = "auto" /\ tool_at = "ended" /\ levels = <<>>
       /\ unloaded = <<>> /\ tool_plugins = {} /\ provider = "none" /\ work = "none" /\ tool_caught = "none"
       /\ exit_status = 0 /\ tool_said = {}
  /\ IF part = "analyze" THEN Tool!AnalyzeInit ELSE
       /\ an_known = {} /\ an_matched = {} /\ an_local = FALSE /\ an_reports = {} /\ an_run_list = {}
       /\ an_problems = {} /\ an_outcome = <<>> /\ an_runs = <<>> /\ an_printed = <<>> /\ an_at = "end"
  /\ IF part = "export" THEN Exporting!ReportInit ELSE
       /\ given = [command |-> "run", format |-> "text", with_log |-> TRUE,
                      output |-> "file", transport |-> FALSE, valid_id |-> TRUE]
       /\ exported_results = [n \in DOMAIN ExportPlugin |->
                                 [outcome |-> "none", comments |-> FALSE, text |-> "nothing"]]
       /\ resources = [r \in {"lsb"} |-> "full"] /\ export_pc = "start"
       /\ result_map = {} /\ report = <<>> /\ entry = <<>>
       /\ saved = "nothing" /\ sent = "nothing" /\ told = FALSE
  /\ IF part = "sheet" THEN Exporting!SheetInit ELSE
       /\ sheet_results = <<>> /\ xlsx_pc = "tree" /\ sheet_stack = <<>>
       /\ category_status = <<>> /\ rows = <<>>
       /\ totals = [pass |-> 0, fail |-> 0, skip |-> 0, total |-> 0]
  /\ IF part = "events" THEN Parsers!SubmissionInit ELSE
       /\ document = <<>> /\ position = 0 /\ listeners = <<>> /\ event_calls = <<>>
       /\ submission_pc = "parsing" /\ test_run = <<>>
  /\ IF part = "udev" THEN Parsers!UdevInit ELSE
       /\ ud_dump = <<>> /\ ud_next = 1 /\ ud_stack = <<>> /\ ud_devices = <<>> /\ ud_how = "end"
  /\ IF part = "exchange" THEN Exchange!Init ELSE
       /\ exchange_config = <<>> /\ plugins = <<>> /\ exchange_todo = <<>>
       /\ exchange_pc = "before" /\ exchange_direction = "next" /\ exchange_errors = {}
       /\ exchange_shown = {} /\ submitted = FALSE /\ request = <<>> /\ servers = <<>>
       /\ accepted = {} /\ lost = 0 /\ linked = FALSE /\ visits = 0
  /\ IF part = "audio" THEN Scripts!AudioInit ELSE
       /\ pulse = <<>> /\ settings = <<>> /\ profiles = "" /\ audio_commands = <<>>
       /\ buffer = <<>> /\ audio_outcome = "none" /\ audio_action = "none"
       /\ profile_set = TRUE /\ kept = <<>> /\ touched = {} /\ script_runs = 0
  /\ IF part = "removable" THEN Scripts!RemovableInit ELSE
       /\ rt_machine = <<>> /\ rt_asked = <<>> /\ rt_at = "end" /\ rt_status = 0 /\ mounted = {}
       /\ unmountable = {} /\ directories = {} /\ rt_data = {} /\ rt_left = {} /\ disk = "none"
       /\ iteration = 0 /\ rt_file = 0 /\ targets = {} /\ rt_files = {} /\ stuck = {}
       /\ verified = {} /\ unread = {} /\ rt_errors = FALSE /\ fast = FALSE
  /\ IF part = "governors" THEN Scripts!GovernorsInit ELSE
       /\ gt_system = <<>> /\ gt_todo = <<>> /\ gt_at = "end" /\ governor = <<>> /\ frequency = 1
       /\ selector = "unknown" /\ low_time = 0 /\ high_time = 0 /\ success = TRUE
       /\ limits = TRUE /\ refused = FALSE /\ ran = {} /\ gt_status = 0
  /\ IF part = "programs" THEN Requirements!Init ELSE
       /\ requirement_program = <<>> /\ resource_map = <<>> /\ expressions = <<>>
       /\ nodes = <<>> /\ names_seen = {} /\ phase = "visiting" /\ current = 0
       /\ resource_records = <<>> /\ program_outcome = ""
  /\ IF part = "start" THEN Starting!Init ELSE
       /\ setup = <<>> /\ start_at = "run" /\ reading = <<>> /\ defaults = <<>>
       /\ unjoined = {} /\ sections = <<>> /\ start_overrides = <<>> /\ todo = {}
       /\ attributes = <<>> /\ start_given = <<>>
  /\ IF part = "sysreport" THEN Reporting!SystemInit ELSE
       /\ sr_at = "end" /\ sr_resources = {} /\ sr_results = <<>> /\ sr_attached = <<>>
       /\ sr_document = <<>> /\ sr_configured = "none" /\ fingerprint = "old" /\ sr_persist = "none"
       /\ sr_saved = "none" /\ sr_id = "none" /\ sr_file = <<>> /\ sr_announced = FALSE /\ sr_built = "no"
       /\ sr_failed = {} /\ sr_reports = 0 /\ sr_answers = 0 /\ sr_starts = 1
  /\ IF part = "values" THEN Reporting!ValuesInit ELSE
       /\ rv_value = <<>> /\ styled = FALSE /\ rv_dumped = <<>> /\ rv_loaded = <<>> /\ rv_stage = "raised"
  /\ IF part = "pickle" THEN Formats!PickleInit ELSE
       /\ pk_value = <<>> /\ pk_bytes = <<>> /\ pk_pickled = <<>> /\ pk_loaded = <<>> /\ pk_stage = "loaded" /\ pk_cut = 0
  /\ IF part = "schemas" THEN Formats!SchemaInit ELSE
       /\ original_message = <<>> /\ coerced_message = <<>> /\ unconverted = {}
       /\ coerce_outcome = "new" /\ coercions = 0 /\ accepted_once = FALSE

\* The components but p do nothing.
Only(p) ==
  /\ part = p /\ UNCHANGED part
  /\ IF p = "runner" THEN TRUE ELSE UNCHANGED runner_vars
  /\ IF p = "launcher" THEN TRUE ELSE UNCHANGED launcher_vars
  /\ IF p = "records" THEN TRUE ELSE UNCHANGED records_vars
  /\ IF p = "manual" THEN TRUE ELSE UNCHANGED manual_vars
  /\ IF p = "bus" THEN TRUE ELSE UNCHANGED bus_vars
  /\ IF p = "notices" THEN TRUE ELSE UNCHANGED notices_vars
  /\ IF p = "results" THEN TRUE ELSE UNCHANGED results_vars
  /\ IF p = "options" THEN TRUE ELSE UNCHANGED options_vars
  /\ IF p = "config" THEN TRUE ELSE UNCHANGED config_vars
  /\ IF p = "tool" THEN TRUE ELSE UNCHANGED tool_vars
  /\ IF p = "analyze" THEN TRUE ELSE UNCHANGED analyze_vars
  /\ IF p = "export" THEN TRUE ELSE UNCHANGED export_vars
  /\ IF p = "sheet" THEN TRUE ELSE UNCHANGED sheet_vars
  /\ IF p = "events" THEN TRUE ELSE UNCHANGED events_vars
  /\ IF p = "udev" THEN TRUE ELSE UNCHANGED udev_vars
  /\ IF p = "exchange" THEN TRUE ELSE UNCHANGED exchange_vars
  /\ IF p = "audio" THEN TRUE ELSE UNCHANGED audio_vars
  /\ IF p = "removable" THEN TRUE ELSE UNCHANGED removable_vars
  /\ IF p = "governors" THEN TRUE ELSE UNCHANGED governors_vars
  /\ IF p = "programs" THEN TRUE ELSE UNCHANGED programs_vars
  /\ IF p = "start" THEN TRUE ELSE UNCHANGED start_vars
  /\ IF p = "sysreport" THEN TRUE ELSE UNCHANGED sysreport_vars
  /\ IF p = "values" THEN TRUE ELSE UNCHANGED values_vars
  /\ IF p = "pickle" THEN TRUE ELSE UNCHANGED pickle_vars
  /\ IF p = "schemas" THEN TRUE ELSE UNCHANGED schemas_vars

Next ==
  \/ Only("runner") /\ Execution!RunnerNext
  \/ Only("launcher") /\ Execution!LauncherNext
  \/ Only("records") /\ Records!Next
  \/ Only("manual") /\ Manual!Next
  \/ Only("bus") /\ Bus!ObjectsNext
  \/ Only("notices") /\ Bus!NoticesNext
  \/ Only("results") /\ Bus!ResultNext
  \/ Only("options") /\ Options!Next
  \/ Only("config") /\ Tool!ConfigNext
  \/ Only("tool") /\ Tool!ToolNext
  \/ Only("analyze") /\ Tool!AnalyzeNext
  \/ Only("export") /\ Exporting!ReportNext
  \/ Only("sheet") /\ Exporting!SheetNext
  \/ Only("events") /\ Parsers!SubmissionNext
  \/ Only("udev") /\ Parsers!UdevNext
  \/ Only("exchange") /\ Exchange!Next
  \/ Only("audio") /\ Scripts!AudioNext
  \/ Only("removable") /\ Scripts!RemovableNext
  \/ Only("governors") /\ Scripts!GovernorsNext
  \/ Only("programs") /\ Requirements!Next
  \/ Only("start") /\ Starting!Next
  \/ Only("sysreport") /\ Reporting!SystemNext
  \/ Only("values") /\ Reporting!ValuesNext
  \/ Only("pickle") /\ Formats!PickleNext
  \/ Only("schemas") /\ Formats!SchemaNext

Spec == Init /\ [][Next]_vars

-----------------------------------------------------------------------------
(* The properties of the components.                                       *)

\* Every component keeps to its types.
TypeOK ==
  /\ part \in Parts
  /\ part = "runner" => Execution!RunnerTypeOK
  /\ part = "launcher" => Execution!LauncherTypeOK
  /\ part = "records" => Records!TypeOK
  /\ part = "manual" => Manual!TypeOK
  /\ part = "bus" => Bus!ObjectsTypeOK
  /\ part = "notices" => Bus!NoticesTypeOK
  /\ part = "results" => Bus!ResultTypeOK
  /\ part = "options" => Options!TypeOK
  /\ part = "config" => Tool!ConfigTypeOK
  /\ part = "tool" => Tool!ToolTypeOK
  /\ part = "analyze" => Tool!AnalyzeTypeOK
  /\ part = "export" => Exporting!ReportTypeOK
  /\ part = "sheet" => Exporting!SheetTypeOK
  /\ part = "events" => Parsers!SubmissionTypeOK
  /\ part = "udev" => Parsers!UdevTypeOK
  /\ part = "exchange" => Exchange!TypeOK
  /\ part = "audio" => Scripts!AudioTypeOK
  /\ part = "removable" => Scripts!RemovableTypeOK
  /\ part = "governors" => Scripts!GovernorsTypeOK
  /\ part = "programs" => Requirements!TypeOK
  /\ part = "start" => Starting!TypeOK
  /\ part = "sysreport" => Reporting!SystemTypeOK
  /\ part = "values" => Reporting!ValuesTypeOK
  /\ part = "pickle" => Formats!PickleTypeOK
  /\ part = "schemas" => Formats!SchemaTypeOK

\* Jobs are run as they are defined, by the job runner, the trusted launcher,
\* the analyze command and the interfaces, and their results are their own.
JobsRunAsDefined ==
  \* A program is evaluated like PlainboxJobs says. What is accepted and rejected
  \* depends on what is outside of calls. A record with every attribute gives an
  \* accepted line a value.
  /\ part = "programs" =>
       /\ Requirements!EvaluationIsOfTheJob
       /\ Requirements!AnalysisLooksOutsideCalls
       /\ Requirements!CompleteRecordsGiveAValue
  \* The log that a result names is that of its run, until the file is used again. A
  \* session is unreadable only after the process was killed while it wrote a log
  \* again. A saved session is refused as corrupted only for a result without a
  \* command.
  /\ part = "runner" =>
       /\ Execution!LogIsOfResult
       /\ Execution!UnreadableForAReason
       /\ Execution!CorruptedForAReason
  \* A job of the session is found by the launcher unless something has changed. The
  \* variables that a job declares reach it.
  /\ part = "launcher" => Execution!NotFoundForAReason /\ Execution!DeclaredReachJob
  \* Each local job is run once at most. When the reports are made every local job
  \* that can be run was run. The dependency report has every job that cannot be run.
  /\ part = "analyze" =>
       /\ Tool!EachLocalRunsOnce
       /\ Tool!AllLocalsWereRun
       /\ Tool!ProblemsAreReported
  \* A test passes only if somebody said so, but for the answer that urwid begins
  \* with. The result of a test is what was said last. Comments survive the runs of
  \* the command, but for urwid.
  /\ part = "manual" =>
       /\ Manual!PassIsSaid
       /\ Manual!ResultIsLastSaid
       /\ Manual!CommentIsKept

\* What the formats of both programs write is what they read again: records,
\* persistent maps, the values of reports, pickles, and messages with a schema.
WrittenIsReadAgain ==
  /\ [](
       \* The parser yields the records before the first error. What is written is
       \* read again, but for lines of white space. Both readers see the same
       \* records, but for the known differences.
       /\ part = "records" =>
            /\ Records!ParsedAsSpecified
            /\ Records!WrittenIsRead
            /\ Records!ReadersAgree
       \* What was set can be got, unless a name was looked for in a list. No empty
       \* container is left behind. A change of what is saved is noted. What was
       \* moved is at its new path, if of another map.
       /\ part = "options" =>
            /\ Options!SetIsGot
            /\ Options!NoEmptyContainers
            /\ Options!ChangesAreNoted
            /\ Options!MovedIsThere
       \* A report of dicts and scalars comes back as it was. What of packages and
       \* processors comes back is what was dumped.
       /\ part = "values" => Reporting!ScalarsComeBack /\ Reporting!EntriesComeBack
       \* What was pickled is loaded again, whatever follows it. A list or dict that
       \* was cut short is an error.
       /\ part = "pickle" => Formats!ComesBack /\ Formats!ShortIsAnError
       \* A message is accepted if and only if it was valid as it was read.
       /\ part = "schemas" => Formats!ValidIsAccepted)
  \* A message that was accepted is not changed again.
  /\ Formats!AcceptedStays

\* The reports have everything that they should have, when they are made, when
\* they are sent and when they are parsed.
ReportsAreComplete ==
  \* A report says of every test what its result is. What a report says of a job is
  \* of that job, or of one before it in RFC822. A report is lost only to what it
  \* cannot hold. The report is where the user wanted it, or the user knows.
  /\ part = "export" =>
       /\ Exporting!ReportIsComplete
       /\ Exporting!FieldsAreTheirOwn
       /\ Exporting!RaisesForAReason
       /\ Exporting!ResultsAreKept
  \* Every test has its row and is counted, unless it is below itself. A category
  \* fails if and only if a test below it did. The sheet is lost only to a job
  \* without description, or no test.
  /\ part = "sheet" =>
       /\ Exporting!EveryTestHasItsRow
       /\ Exporting!CategoryIsOfItsTests
       /\ Exporting!SheetRaisesForAReason
  \* The test run has the result of every question, but for what the queue loses. The
  \* test run has its state and devices, whatever the order of the document. The test
  \* run has the processor that is known first. The test run has the packages and the
  \* commands of the context.
  /\ part = "events" =>
       /\ Parsers!ResultsAreAdded
       /\ Parsers!StateIsAdded
       /\ Parsers!ProcessorIsAdded
       /\ Parsers!PartsAreAdded
  \* The devices on the stack are those above the record read last. What is reported
  \* of a device does not depend on devices that are not above it. A drive and its
  \* disk are not told to be of two kinds.
  /\ part = "udev" =>
       /\ Parsers!StackIsAncestry
       /\ Parsers!ReportedAsAlone
       /\ Parsers!DriveIsOneThing
  \* What is sent says of each test in the end what its status is now. A report is
  \* announced when it is whole and can be read. A resource that cannot be reported
  \* costs its own part alone. A system keeps the id that was saved.
  /\ part = "sysreport" =>
       /\ Reporting!SentIsCurrent
       /\ Reporting!AnnouncedIsReadable
       /\ Reporting!OthersAreReported
       /\ Reporting!SystemKeepsItsId
  \* A report that Launchpad does not have is one of which the user has seen an
  \* error. Launchpad gets the report once, the certification site again for a
  \* reason.
  /\ part = "exchange" => Exchange!EveryFailureIsSeen /\ Exchange!NotSentTwice

\* Both programs start with what their configuration and their user have asked
\* for, and end with a true status.
SettingsAreFollowed ==
  \* A variable is what the last file says that sets it, or its default. check-config
  \* says which files count, unless one is broken. Reading raises for a value that
  \* cannot be interpolated only. Jobs get the variables that the configuration
  \* declares.
  /\ part = "config" =>
       /\ Tool!VariablesAreConfigured
       /\ Tool!PresentFilesAreRead
       /\ Tool!RaisesForAReason
       /\ Tool!EnvironmentIsDeclared
  \* What a plugin runs with is what was said last. An override reaches all sections
  \* that it matches. What is loaded is what the white list names.
  /\ part = "start" =>
       /\ Starting!LastSettingCounts
       /\ Starting!OverridesReachSections
       /\ Starting!WhitelistIsExact
  \* A crashed command has left a record, whatever the options of logging. A provider
  \* that could not be imported is not passed over in silence. Jobs come from the
  \* provider that was asked for. Work that failed is not reported as a success.
  /\ part = "tool" =>
       /\ Tool!CrashesAreOnRecord
       /\ Tool!SkippedIsOnRecord
       /\ Tool!ProviderIsAsked
       /\ Tool!StatusTellsFailure

\* What clients find and hear on the bus is what the service has.
BusIsTruthful ==
  /\ [](
       \* The jobs of a session can be had, unless there is a reason. The results of
       \* a session can be had, unless it was resumed. Objects that are found are
       \* published, unless the session was resumed. Clients are told of all objects
       \* but new jobs and their results.
       /\ part = "bus" =>
            /\ Bus!JobsAreReadable
            /\ Bus!ResultsAreReadable
            /\ Bus!WrappersHavePaths
            /\ Bus!ClientsAreTold
       \* A path finds the object that handles it. Who follows the signals knows what
       \* is managed, unless there is a reason. And the outcomes, but for those that
       \* are set to none.
       /\ part = "notices" =>
            /\ Bus!FoundIsExported
            /\ Bus!FollowersKnowTheList
            /\ Bus!FollowersKnowOutcomes
       \* Who listens to a result knows its outcome and comments.
       /\ part = "results" => Bus!FollowersKnow)
  \* A call of Set() that fails changes nothing but an outcome to none.
  /\ Bus!FailureChangesNothing

\* The scripts test what they are asked to, and leave the machine as it was.
MachineIsRestored ==
  \* What a restore puts back is what the store found, but for the second channel.
  \* Only a device that the test has set, or a default, differs after a store.
  /\ part = "audio" => Scripts!RestoredIsStored /\ Scripts!OnlyTouchedIsLeft
  \* A test that passes has read back every copy on every disk that it should test.
  \* Disks of another kind are never written to. What was mounted is unmounted and
  \* what was copied is removed.
  /\ part = "removable" =>
       /\ Scripts!PassMeansCopied
       /\ Scripts!OnlyAskedAreTouched
       /\ Scripts!LeavesNothing
  \* A test that passes has timed the load under each governor that it tries. The
  \* first processor gets its governor back, unless the kernel refuses it. The other
  \* processors keep theirs, where there is no selector.
  /\ part = "governors" =>
       /\ Scripts!PassMeansTried
       /\ Scripts!Restoration
       /\ Scripts!OthersKeepTheirs
=============================================================================
