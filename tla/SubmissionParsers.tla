------------------------- MODULE SubmissionParsers --------------------------
(***************************************************************************)
(* Two parsers of checkbox that keep state from one record to the next:    *)
(* the parser of submissions with its dispatcher of events                 *)
(* (parsers/submission.py, dispatcher.py), and that of the devices that    *)
(* udev knows (parsers/udevadm.py). They share no state; each has its own  *)
(* variables, initial states and steps.                                    *)
(***************************************************************************)
EXTENDS Naturals, Sequences, SequencesExt, FiniteSets

-----------------------------------------------------------------------------
(***************************************************************************)
(* How a submission is read (checkbox/parsers/submission.py): its sections *)
(* are parsed in the order of the document and published as events, and    *)
(* the DispatcherQueue (checkbox/dispatcher.py) calls a handler when there *)
(* is an event of every type that it waits for.  Until then the events of  *)
(* a type are queued, equal ones once; from the first call on only the     *)
(* latest one of each type is kept.                                        *)
(*                                                                         *)
(* The test run, made by a factory of the caller, is external.  A text is  *)
(* a name for what it says; the parsers of /proc/cpuinfo, /proc/meminfo,   *)
(* dmidecode and udev are modelled by what they publish.                   *)
(***************************************************************************)

CONSTANTS
  Documents,  \* bound: the documents: sequences of [tag, value, answer, comment],
              \* at most one of each tag of the summary and one context
  DevicesOf,  \* the text of udev -> its devices
  DmiOf,      \* the text of dmidecode -> its devices: [category, serial]
  ParserOf,   \* a command of the context -> the tag of the same parser, or ""
  Blank,      \* the texts of /proc/cpuinfo that describe no processor
  Known,      \* the lists of processors with a platform: parsed by the sender
  Cputable,   \* the lines of the file cputable: [debian_name, gnu_name, bits]
  Refused     \* the names of the results that the test run does not take

VARIABLES
  document,
  position,      \* how many of its items have been parsed
  listeners,     \* listener -> [registered, called, kwargs]: is it called for
                 \* the latest events, and the values that it has by type
  calls,         \* the calls of run(), publishEvent(), notify() and the handlers
  submission_pc, \* "parsing", "parsed" or "raised"
  run            \* the test run: how often it was made, and what it has of
                 \* each type; with the identifiers of the SubmissionResult

submission_vars == <<document, position, listeners, calls, submission_pc, run>>

Order ==
  <<"addCpuArchitecture", "addIdentifier", "addAttachment", "addDeviceState",
    "addDmiDeviceState", "setDistribution", "addPackageVersion", "addTestResult",
    "setArchitecture", "setCpuinfo", "setMeminfo", "setTestRun", "setArchitectureState",
    "setKernelState", "setMemoryState", "setProcessorState", "setUdevadm">>

\* The handlers that add a value of a type to the test run.
Adds ==
  [addAttachment |-> "attachment", addDeviceState |-> "device",
   addDmiDeviceState |-> "dmi_device", setDistribution |-> "distribution",
   addPackageVersion |-> "package_version", addTestResult |-> "test_result",
   setArchitectureState |-> "architecture", setKernelState |-> "kernel",
   setMemoryState |-> "memory", setProcessorState |-> "processor"]

TypesOf ==
  [addCpuArchitecture |-> <<"cpu", "architecture">>,
   addIdentifier      |-> <<"identifier">>,
   setArchitecture    |-> <<"architecture">>,
   setCpuinfo         |-> <<"cpuinfo", "machine", "cpuinfo_result">>,
   setMeminfo         |-> <<"meminfo", "meminfo_result">>,
   setTestRun         |-> <<"project", "series">>,
   setUdevadm         |-> <<"udevadm", "bits", "udevadm_result">>]
  @@ [l \in DOMAIN Adds |-> <<"test_run", Adds[l]>>]

\* The listeners with count=1, which are unregistered after their call.
Once == ToSet(SubSeq(Order, 9, 17))

AnswerToStatus ==
  [fail |-> "fail", no |-> "fail", pass |-> "pass", skip |-> "untested",
   uninitiated |-> "uninitiated", unresolved |-> "unresolved",
   unsupported |-> "unsupported", untested |-> "untested", yes |-> "pass"]

SubmissionTypeOK ==
  /\ document \in Documents /\ position \in 0..Len(document)
  /\ DOMAIN listeners = ToSet(Order)
  /\ \A l \in DOMAIN listeners :
       /\ listeners[l].registered \in BOOLEAN /\ listeners[l].called \in BOOLEAN
       /\ DOMAIN listeners[l].kwargs \subseteq ToSet(TypesOf[l])
  /\ submission_pc \in {"parsing", "parsed", "raised"}
  /\ run.made \in 0..1 /\ DOMAIN run.has = {Adds[l] : l \in DOMAIN Adds} \cup {"identifier"}

Event(type, arg) == [type |-> type, arg |-> arg]

Call(what, listener, event, todo) ==
  [what |-> what, listener |-> listener, event |-> event, todo |-> todo]

NoEvent == Event("", "")

Handling(events) == Call("handler", "", NoEvent, events)

SubmissionInit ==
  /\ document \in Documents /\ position = 0
  /\ listeners = [l \in ToSet(Order) |-> [registered |-> TRUE, called |-> FALSE, kwargs |-> <<>>]]
  /\ calls = <<>> /\ submission_pc = "parsing"
  /\ run = [made |-> 0,
            has |-> [t \in {Adds[l] : l \in DOMAIN Adds} \cup {"identifier"} |-> <<>>]]

Caller == calls[Len(calls)]

\* The calls once the innermost one has only `todo' left.
Later(todo) == [calls EXCEPT ![Len(calls)].todo = todo]

---------------------------------------------------------------------------
(* The document *)

TestResult(q) ==
  [name |-> q.value, output |-> q.comment, status |-> AnswerToStatus[q.answer]]

SummaryType ==
  [architecture |-> "architecture", distribution |-> "project", distroseries |-> "series",
   kernel_release |-> "kernel"]

Deferred(type, text) == <<Event(type, text), Event(type \o "_result", "result")>>

\* A device of dmidecode; the events of its model have no handlers.
DmiEvents(device) ==
  (IF device.serial = "" THEN <<>> ELSE <<Event("identifier", device.serial)>>)
  \o (IF device.category = "DEVICE" THEN <<>> ELSE <<Event("dmi_device", device)>>)

ParsedBy(parser, text) ==
  CASE parser = "cpuinfo" -> Deferred("cpuinfo", text)
    [] parser = "meminfo" -> Deferred("meminfo", text)
    [] parser = "udev"    -> Deferred("udevadm", text)
    [] parser = "dmi"     -> FlattenSeq([i \in DOMAIN DmiOf[text] |-> DmiEvents(DmiOf[text][i])])
    [] OTHER              -> <<>>

\* An <info> of the context, after those of the commands.
InfoEvents(item, commands) ==
  IF item.value \in commands \/ item.comment = "Command not found." THEN <<>>
  ELSE <<Event("attachment", [name |-> item.value, content |-> item.comment])>>
       \o ParsedBy(ParserOf[item.value], item.comment)

\* Processors without a platform are turned back into the lines of /proc/cpuinfo.
ProcessorEvents(text) ==
  IF text \in Known THEN <<Event("processor", [text |-> text, platform |-> "known"])>>
  ELSE IF text \in Blank THEN <<>>
  ELSE Deferred("cpuinfo", text)

\* Of a package, its name and version.
PackageVersion(item) == [name |-> item.value, version |-> item.comment]

EventsOf(item, commands) ==
  CASE item.tag = "question"        -> <<Event("test_result", TestResult(item))>>
    [] item.tag \in {"udev", "dmi"} -> ParsedBy(item.tag, item.value)
    [] item.tag = "processors"      -> ProcessorEvents(item.value)
    [] item.tag = "info"            -> InfoEvents(item, commands)
    [] item.tag = "lsbrelease"      -> <<Event("distribution", item.value)>>
    [] item.tag = "package"         -> <<Event("package_version", PackageVersion(item))>>
    [] item.tag \in DOMAIN SummaryType -> <<Event(SummaryType[item.tag], item.value)>>
    [] OTHER                        -> <<>>

CommandsBefore(i) == {document[j].value : j \in {k \in 1..(i - 1) : document[k].tag = "info"}}

Answered(item) == item.tag = "question" => item.answer \in DOMAIN AnswerToStatus

Parse ==
  /\ submission_pc = "parsing" /\ calls = <<>> /\ position < Len(document)
  /\ LET item == document[position + 1] IN
       IF Answered(item)
       THEN /\ position' = position + 1 /\ calls' = <<Handling(EventsOf(item, CommandsBefore(position + 1)))>>
            /\ UNCHANGED submission_pc
       ELSE submission_pc' = "raised" /\ UNCHANGED <<position, calls>>
  /\ UNCHANGED <<document, listeners, run>>

Finish ==
  /\ submission_pc = "parsing" /\ calls = <<>> /\ position = Len(document)
  /\ submission_pc' = "parsed"
  /\ UNCHANGED <<document, position, listeners, calls, run>>

---------------------------------------------------------------------------
(* The dispatcher *)

IsIn(what) == calls /= <<>> /\ Caller.what = what

ListenersOf(type) ==
  SelectSeq(Order, LAMBDA l : listeners[l].registered /\ type \in ToSet(TypesOf[l]))

PublishEvent ==
  /\ IsIn("handler") /\ Caller.todo /= <<>>
  /\ LET event == Head(Caller.todo) IN
       calls' = Append(Later(Tail(Caller.todo)),
                       Call("publishEvent", "", event, ListenersOf(event.type)))
  /\ UNCHANGED <<document, position, listeners, submission_pc, run>>

\* Duplicates are stripped from the queue.
Enqueue(queue, arg) == IF arg \in ToSet(queue) THEN queue ELSE Append(queue, arg)

\* The kwargs with one value of each queue, in the order of product().
Combinations(types, kwargs) ==
  LET With(all, type) ==
        FlattenSeq([i \in DOMAIN all |->
                      [j \in DOMAIN kwargs[type] |-> all[i] @@ (type :> <<kwargs[type][j]>>)]])
  IN FoldLeft(With, << <<>> >>, types)

QueueOf(l, type) ==
  IF listeners[l].called \/ type \notin DOMAIN listeners[l].kwargs THEN <<>>
  ELSE listeners[l].kwargs[type]

\* Of a listener that has been called, the queue holds the latest event only.
Notify ==
  /\ IsIn("publishEvent") /\ Caller.todo /= <<>>
  /\ LET l == Head(Caller.todo)
         event == Caller.event
         kwargs == (event.type :> Enqueue(QueueOf(l, event.type), event.arg)) @@ listeners[l].kwargs
         complete == DOMAIN kwargs = ToSet(TypesOf[l])
     IN /\ listeners' = [listeners EXCEPT ![l].kwargs = kwargs, ![l].called = @ \/ complete]
        /\ calls' = IF complete
                    THEN Append(Later(Tail(Caller.todo)),
                                Call("notify", l, event, Combinations(TypesOf[l], kwargs)))
                    ELSE Later(Tail(Caller.todo))
  /\ UNCHANGED <<document, position, submission_pc, run>>

Arg(kwargs, type) == kwargs[type][1]

\* The processor that a text describes for a machine, or nothing.
CpuinfoEvents(text, machine) ==
  IF text \in Blank THEN <<>>
  ELSE <<Event("processor",
               [text |-> text,
                platform |-> IF machine \in {"i486", "i586", "i686"} THEN "i386" ELSE machine])>>

\* What a handler publishes.
Published(l, kwargs) ==
  CASE l = "setArchitecture" ->
         [i \in DOMAIN Cputable |-> Event("cpu", Cputable[i])]
    [] l = "addCpuArchitecture" ->
         IF Arg(kwargs, "cpu").debian_name = Arg(kwargs, "architecture")
         THEN <<Event("machine", Arg(kwargs, "cpu").gnu_name), Event("bits", Arg(kwargs, "cpu").bits)>>
         ELSE <<>>
    [] l = "setTestRun" -> <<Event("test_run", "test_run")>>
    [] l = "setCpuinfo" -> CpuinfoEvents(Arg(kwargs, "cpuinfo"), Arg(kwargs, "machine"))
    [] l = "setMeminfo" -> <<Event("memory", Arg(kwargs, "meminfo"))>>
    [] l = "setUdevadm" ->
         LET devices == DevicesOf[Arg(kwargs, "udevadm")] IN
           [i \in DOMAIN devices |->
              Event("device", [path |-> devices[i], bits |-> Arg(kwargs, "bits")])]
    [] OTHER -> <<>>

\* What it does to the test run.
Run(l, kwargs) ==
  CASE l = "setTestRun"     -> [run EXCEPT !.made = @ + 1]
    [] l = "addIdentifier"  -> [run EXCEPT !.has["identifier"] = Append(@, Arg(kwargs, "identifier"))]
    [] l \in DOMAIN Adds    -> [run EXCEPT !.has[Adds[l]] = Append(@, Arg(kwargs, Adds[l]))]
    [] OTHER                -> run

Raises(l, kwargs) == l = "addTestResult" /\ Arg(kwargs, "test_result").name \in Refused

\* The handler is called for the next combination.  An exception leaves
\* notify(), with what was queued behind; publishEvent() logs it.
CallHandler ==
  /\ IsIn("notify") /\ Caller.todo /= <<>>
  /\ LET l == Caller.listener
         kwargs == Head(Caller.todo)
         left == IF l \in Once THEN <<>> ELSE Tail(Caller.todo)
     IN /\ listeners' = [listeners EXCEPT ![l].kwargs = kwargs]
        /\ IF Raises(l, kwargs) THEN calls' = Front(calls) /\ UNCHANGED run
           ELSE /\ calls' = Append(Later(left), Handling(Published(l, kwargs)))
                /\ run' = Run(l, kwargs)
  /\ UNCHANGED <<document, position, submission_pc>>

\* A call returns; after notify() a listener with no count left is unregistered.
Return ==
  /\ calls /= <<>> /\ Caller.todo = <<>>
  /\ calls' = Front(calls)
  /\ listeners' = IF Caller.what = "notify" /\ Caller.listener \in Once
                  THEN [listeners EXCEPT ![Caller.listener].registered = FALSE]
                  ELSE listeners
  /\ UNCHANGED <<document, position, submission_pc, run>>

SubmissionNext == Parse \/ Finish \/ PublishEvent \/ Notify \/ CallHandler \/ Return

SubmissionSpec == SubmissionInit /\ [][SubmissionNext]_submission_vars

---------------------------------------------------------------------------
(* Properties *)

Parsed == 1..position

Tagged(tag) == {i \in Parsed : document[i].tag = tag}

\* Has the test run been made before item i?
MadeBefore(i) ==
  \E p \in Tagged("distribution"), s \in Tagged("distroseries") : p < i /\ s < i

RunIsMade == MadeBefore(position + 1)

Refusals == {i \in Tagged("question") : document[i].value \in Refused}

\* The questions that are in the test run.
Added ==
  {i \in Tagged("question") \ Refusals :
     \/ MadeBefore(i)
     \/ /\ RunIsMade
        /\ \A j \in Tagged("question") : j < i =>
             j \notin Refusals /\ TestResult(document[j]) /= TestResult(document[i])}

\* The test run has the result of every question, in the order of the document
\* and once, unless the test run does not take it; but of the questions that come
\* before the run is made, which are queued, equal ones are there once, and those
\* behind one that is not taken are lost.
ResultsAreAdded ==
  calls = <<>> =>
    run.has["test_result"] =
      [i \in 1..Cardinality(Added) |->
         TestResult(document[SetToSortSeq(Added, LAMBDA a, b : a < b)[i]])]

Architecture == {i \in Tagged("architecture") :
                   \E c \in ToSet(Cputable) : document[i].value = c.debian_name}

Machine == {c \in ToSet(Cputable) : \E i \in Architecture : document[i].value = c.debian_name}

TextAt(i) == IF document[i].tag = "info" THEN document[i].comment ELSE document[i].value

\* The first items of the document that have something for a parser.
First(items) == {i \in items : \A j \in items : i <= j}

\* The items of the context that are not left out, with a parser.
Contexts(parser) ==
  {i \in Tagged("info") : /\ ParserOf[document[i].value] = parser
                          /\ document[i].comment /= "Command not found."
                          /\ document[i].value \notin CommandsBefore(i)}

ValuesOf(tag) == SetToSeq({document[i].value : i \in Tagged(tag)})

\* Wherever the summary, udev and the context are in the document, the test run has
\* the architecture, the kernel and the memory once, and exactly the devices of the
\* first part of udev, parsed with the bits of the architecture.
StateIsAdded ==
  calls = <<>> =>
    /\ run.made = IF RunIsMade THEN 1 ELSE 0
    /\ run.has["architecture"] = IF RunIsMade THEN ValuesOf("architecture") ELSE <<>>
    /\ run.has["kernel"] = IF RunIsMade THEN ValuesOf("kernel_release") ELSE <<>>
    /\ run.has["memory"] =
         IF RunIsMade THEN SetToSeq({TextAt(i) : i \in First(Contexts("meminfo"))}) ELSE <<>>
    /\ ToSet(run.has["device"]) =
         {[path |-> d, bits |-> c.bits] :
            c \in IF RunIsMade THEN Machine ELSE {},
            d \in UNION {ToSet(DevicesOf[TextAt(i)]) : i \in First(Tagged("udev") \cup Contexts("udev"))}}

\* The lists of processors that are texts of /proc/cpuinfo, and when one is parsed:
\* only the first is, once the architecture is known, even if it has no processor.
Cpuinfos ==
  Contexts("cpuinfo")
  \cup {i \in Tagged("processors") : document[i].value \notin Known \cup Blank}

Candidates ==
  {[at |-> i, text |-> document[i].value] :
     i \in {j \in Tagged("processors") : document[j].value \in Known}}
  \cup {[at |-> IF i < a THEN a ELSE i, text |-> TextAt(i)] :
          i \in {j \in First(Cpuinfos) : TextAt(j) \notin Blank}, a \in Architecture}

\* The test run has one processor, the one that is known first: with a platform as
\* soon as it is read, from the first text of /proc/cpuinfo when the architecture is
\* known as well; a first text without a processor hides the others.
ProcessorIsAdded ==
  calls = <<>> =>
    [i \in DOMAIN run.has["processor"] |-> run.has["processor"][i].text] =
      IF RunIsMade
      THEN SetToSeq({c.text : c \in {d \in Candidates : \A e \in Candidates : d.at <= e.at}})
      ELSE <<>>

\* The items in a set, as a sequence of what is made of them.
InOrder(items, Made(_)) ==
  LET order == SetToSortSeq(items, LAMBDA a, b : a < b) IN [i \in DOMAIN order |-> Made(order[i])]

PackageAt(i) == [name |-> document[i].value, version |-> document[i].comment]

AttachmentAt(i) == [name |-> document[i].value, content |-> document[i].comment]

\* The first of equal packages that are queued for the test run, and all others.
Packages ==
  {i \in Tagged("package") :
     MadeBefore(i) \/ \A j \in Tagged("package") : j < i => PackageAt(j) /= PackageAt(i)}

Attachments ==
  {i \in Tagged("info") : document[i].comment /= "Command not found."
                         /\ document[i].value \notin CommandsBefore(i)}

\* Whether they come before or after the test run is made, it has every package of
\* the document, equal ones that come before it once, and every command of the
\* context once, with the text that it had first.
PartsAreAdded ==
  calls = <<>> =>
    /\ run.has["package_version"] = IF RunIsMade THEN InOrder(Packages, PackageAt) ELSE <<>>
    /\ run.has["attachment"] = IF RunIsMade THEN InOrder(Attachments, AttachmentAt) ELSE <<>>

-----------------------------------------------------------------------------
(***************************************************************************)
(* How the devices of a machine are told from the output of udevadm        *)
(* (checkbox/parsers/udevadm.py): records are read one after the other,    *)
(* each with the devices above it on a stack, and a device is reported     *)
(* with the category, the driver and the product that it or those above it *)
(* have.                                                                   *)
(*                                                                         *)
(* A path is a sequence of names, an environment a function from the names *)
(* of its variables to values; where the code takes a value apart (the     *)
(* class numbers of PCI and USB, the bits of KEY, MODALIAS) the value here *)
(* is the name of the case.                                                *)
(***************************************************************************)

CONSTANTS
  Dumps         \* the outputs of udevadm: sequences of [path, env, broken]

VARIABLES
  dump,
  next,         \* the record that is read next
  stack,        \* the devices above it, and what is left of earlier ones
  udev_devices,      \* result: the devices reported
  how           \* "reading", "end", or the exception

udev_vars == <<dump, next, stack, udev_devices, how>>

Has(d, name) == name \in DOMAIN d.env
Value(d, name) == IF Has(d, name) THEN d.env[name] ELSE ""

Top(d) == d.above[Len(d.above)]
IsDisk(d) == Value(d, "DEVTYPE") = "disk"

---------------------------------------------------------------------------
(* UdevadmDevice *)

\* A disk below another device is where its host is, two names up.
Path(d) == IF IsDisk(d) /\ d.above # <<>> THEN SubSeq(d.path, 1, Len(d.path) - 2) ELSE d.path

EndsInZeros == {"PNP0C14:00"}
IsPnp(d) == Value(d, "MODALIAS") \in {"acpi", "acpi_interrupt"}

\* "" is the bus None.
Bus(d) ==
  IF IsPnp(d) /\ d.path # <<>> /\ d.path[Len(d.path)] \in EndsInZeros THEN "pnp"
  ELSE IF IsDisk(d) /\ d.above # <<>> THEN Value(Top(d), "SUBSYSTEM")
  ELSE IF Value(d, "SUBSYSTEM") = "pnp" THEN "" ELSE Value(d, "SUBSYSTEM")

Driver(d) ==
  IF Has(d, "DRIVER") THEN d.env.DRIVER
  ELSE IF d.above # <<>> THEN Value(Top(d), "DRIVER") ELSE ""

HasProductId(d) == Value(d, "MODALIAS") \in {"pci", "usb", "acpi"}
HasVendorId(d) == Value(d, "MODALIAS") \in {"pci", "usb"}

\* The devices above that a scsi device takes its names from: the nearest one
\* of the USB bus, which must have the name.
OnUsb(d) == {i \in DOMAIN d.above : Value(d.above[i], "ID_BUS") = "usb"}
NearestUsb(d) == d.above[CHOOSE i \in OnUsb(d) : \A j \in OnUsb(d) : j <= i]

KeyError(d) ==
  /\ Value(d, "DEVTYPE") = "scsi_device" /\ OnUsb(d) # {}
  /\ ~Has(d, "NAME") /\ ~Has(d, "RFKILL_NAME")
  /\ ~Has(NearestUsb(d), "ID_MODEL_ENC")

None == "None"

Product(d) ==
  IF Has(d, "NAME") THEN d.env.NAME
  ELSE IF Has(d, "RFKILL_NAME") THEN d.env.RFKILL_NAME
  ELSE IF Value(d, "DEVTYPE") = "scsi_device" /\ OnUsb(d) # {}
       THEN NearestUsb(d).env.ID_MODEL_ENC
  ELSE IF IsDisk(d) /\ Has(d, "ID_MODEL_ENC") THEN d.env.ID_MODEL_ENC
  ELSE IF Driver(d) = "floppy" THEN "Platform Device"
  ELSE IF Has(d, "ID_MODEL_FROM_DATABASE") THEN d.env.ID_MODEL_FROM_DATABASE ELSE None

\* The names of a USB device come together, so that there is no exception here
\* where there was none for the product.
Vendor(d) ==
  IF Has(d, "RFKILL_NAME") THEN None
  ELSE IF IsPnp(d) THEN "PNP"
  ELSE IF Value(d, "DEVTYPE") = "scsi_device" /\ OnUsb(d) # {}
       THEN NearestUsb(d).env.ID_VENDOR_ENC
  ELSE IF IsDisk(d) /\ Has(d, "ID_VENDOR_ENC") THEN d.env.ID_VENDOR_ENC
  ELSE IF Has(d, "ID_VENDOR_FROM_DATABASE") THEN d.env.ID_VENDOR_FROM_DATABASE ELSE None

---------------------------------------------------------------------------
(* The category: the first of these rules that gives one. *)

ByInterfaceIndex(d) ==
  IF ~Has(d, "IFINDEX") THEN None
  ELSE IF Value(d, "DEVTYPE") = "wlan" THEN "WIRELESS" ELSE "NETWORK"

ByBus(d) ==
  CASE Bus(d) = "sound" -> "AUDIO" [] Bus(d) = "ieee80211" -> "WIRELESS" [] OTHER -> None

\* The classes of PCI, and the interfaces of USB, by their names in lib/pci.py
\* and lib/usb.py.
ByPciClass(d) ==
  LET class == Value(d, "PCI_CLASS") IN
  CASE class = "NETWORK_WIRELESS"                          -> "WIRELESS"
    [] class = "NETWORK"                                   -> "NETWORK"
    [] class = "DISPLAY_VGA"                               -> "VIDEO"
    [] class = "DISPLAY"                                   -> "OTHER"
    [] class = "SERIAL_USB"                                -> "USB"
    [] class \in {"SCSI", "IDE", "FLOPPY", "RAID"}         -> class
    [] class = "COMMUNICATION_MODEM"                       -> "MODEM"
    [] class = "INPUT_SCANNER"                             -> "SCANNER"
    [] class = "MULTIMEDIA_VIDEO"                          -> "CAPTURE"
    [] class \in {"MULTIMEDIA_AUDIO", "MULTIMEDIA_AUDIO_DEVICE"} -> "AUDIO"
    [] class = "SERIAL_FIREWIRE"                           -> "FIREWIRE"
    [] class = "WIRELESS_BLUETOOTH"                        -> "BLUETOOTH"
    [] class \in {"BRIDGE_PCMCIA", "BRIDGE_CARDBUS"}       -> "SOCKET"
    [] OTHER                                               -> None

ByUsbInterface(d) ==
  LET class == IF Has(d, "TYPE") THEN Value(d, "INTERFACE") ELSE "" IN
  CASE class = "AUDIO"                          -> "AUDIO"
    [] class = "PRINTER"                        -> "PRINTER"
    [] class = "STORAGE_FLOPPY"                 -> "FLOPPY"
    [] class = "STORAGE_SCSI"                   -> "SCSI"
    [] class = "VIDEO"                          -> "CAPTURE"
    [] class = "WIRELESS_BLUETOOTH"             -> "BLUETOOTH"
    [] class = "WIRELESS"                       -> "WIRELESS"
    [] OTHER                                    -> None

\* The keys that are tested, in the names of their sets.
ByKeys(d) ==
  LET keys == Value(d, "KEY") IN
  CASE keys = "Q to P"             -> "KEYBOARD"
    [] keys = "CAMERA and MOUSE"   -> "KVM"
    [] keys = "CAMERA"             -> "CAPTURE"
    [] keys \in {"TOUCH", "TOUCH and MOUSE"} -> "TOUCH"
    [] keys = "MOUSE"              -> "MOUSE"
    [] OTHER                       -> None

\* A card reader is told by its driver, or by the names of a drive.
ByDriver(d) ==
  IF Driver(d) \in {"sdhci", "mmc"} THEN "CARDREADER"
  ELSE IF /\ Driver(d) = "sd" /\ Product(d) \notin {None, ""}
          /\ \/ Has(d, "ID_DRIVE_FLASH")
             \/ /\ \E i \in DOMAIN d.above : Bus(d.above[i]) = "usb"
                /\ (Product(d) = "Card Reader" \/ Vendor(d) = "Generic")
       THEN "CARDREADER" ELSE None

ByIdType(d) ==
  LET type == Value(d, "ID_TYPE") IN
  CASE type = "cd" -> "CDROM" [] type = "disk" -> "DISK" [] type = "video" -> "VIDEO"
    [] OTHER -> None

ByRfkill(d) == IF Value(d, "RFKILL_TYPE") = "bluetooth" THEN "BLUETOOTH" ELSE None

ByDiskType(d) ==
  IF ~IsDisk(d) THEN None
  ELSE IF Has(d, "ID_CDROM") THEN "CDROM" ELSE IF Has(d, "ID_DRIVE_FLOPPY") THEN "FLOPPY" ELSE None

\* The type of a scsi device is in its MODALIAS.
ByScsiType(d) ==
  LET type == IF Value(d, "DEVTYPE") = "scsi_device" THEN Value(d, "MODALIAS") ELSE "" IN
  CASE type = "scsi disk" /\ ~(\E i \in DOMAIN d.above : Driver(d.above[i]) = "rts_pstor") -> "DISK"
    [] type = "scsi tape"    -> "TAPE"
    [] type = "scsi printer" -> "PRINTER"
    [] type = "scsi cdrom"   -> "CDROM"
    [] type = "scsi scanner" -> "SCANNER"
    [] type = "scsi raid"    -> "RAID"
    [] OTHER                 -> None

ByFloppy(d) == IF Value(d, "DRIVER") = "floppy" THEN "FLOPPY" ELSE None
ByProduct(d) == IF Product(d) \in {None, ""} THEN None ELSE "OTHER"

Category(d) ==
  LET found == SelectSeq(<<ByInterfaceIndex(d), ByBus(d), ByPciClass(d), ByUsbInterface(d),
                           ByKeys(d), ByDriver(d), ByIdType(d), ByRfkill(d), ByDiskType(d),
                           ByScsiType(d), ByFloppy(d), ByProduct(d)>>, LAMBDA c : c # None)
  IN IF found = <<>> THEN None ELSE Head(found)

\* The name of a network interface; elsewhere the variable is the class of USB.
Interface(d) ==
  IF Category(d) \in {"NETWORK", "WIRELESS"} /\ Has(d, "INTERFACE") THEN d.env.INTERFACE ELSE None

---------------------------------------------------------------------------
(* UdevadmParser *)

\* _ignoreDevice(): without a bus, without any name or number, with half of the
\* numbers of a subsystem (never: both come from one variable), or of ACPI.
Ignored(d) ==
  \/ Bus(d) = ""
  \/ /\ Bus(d) # "ieee80211"
     /\ \/ Product(d) = None /\ ~HasProductId(d) /\ Vendor(d) = None /\ ~HasVendorId(d)
        \/ Bus(d) = "acpi"

\* The path of device d, and "/", is in the path p.
IsBelow(p, d) == Len(Path(d)) < Len(p) /\ SubSeq(p, 1, Len(Path(d))) = Path(d)

\* Mutant of Above: one device is taken off at most.
AboveOrOne(p, devs) ==
  IF devs = <<>> \/ IsBelow(p, devs[Len(devs)]) THEN devs ELSE SubSeq(devs, 1, Len(devs) - 1)

\* What is left of the stack: devices are taken off until one is above p.
Above(p, devs) ==
  LET kept == {n \in 1 .. Len(devs) : IsBelow(p, devs[n])}
  IN IF kept = {} THEN <<>> ELSE SubSeq(devs, 1, CHOOSE n \in kept : \A m \in kept : m <= n)

Device(r, devs) == [path |-> r.path, env |-> r.env, above |-> Above(r.path, devs)]

Pushed(d) == Append(d.above, d)

\* udev_resource prints these attributes of a device.
Attributes(d) ==
  [device |-> d.path, path |-> Path(d), bus |-> Bus(d), category |-> Category(d),
   driver |-> Driver(d), product |-> Product(d), vendor |-> Vendor(d),
   interface |-> Interface(d)]

UdevTypeOK ==
  /\ dump \in Dumps /\ next \in 1 .. Len(dump) + 1
  /\ \A i \in DOMAIN udev_devices : udev_devices[i].bus # ""
  /\ \A i \in DOMAIN stack : \E r \in Range(dump) : r.path = stack[i].path
  /\ how \in {"reading", "end", "property not supported", "no model"}

UdevInit ==
  /\ dump \in Dumps /\ next = 1 /\ stack = <<>> /\ udev_devices = <<>> /\ how = "reading"

\* A property without "=" ends the reading with an exception, and so does a
\* scsi device below one of the USB bus that has no model.
RaiseUnsupported ==
  /\ how = "reading" /\ next <= Len(dump) /\ dump[next].broken
  /\ how' = "property not supported"
  /\ UNCHANGED <<dump, next, stack, udev_devices>>

RaiseNoModel ==
  /\ how = "reading" /\ next <= Len(dump) /\ ~dump[next].broken
  /\ KeyError(Device(dump[next], stack))
  /\ how' = "no model"
  /\ UNCHANGED <<dump, next, stack, udev_devices>>

ReadRecord ==
  /\ how = "reading" /\ next <= Len(dump) /\ ~dump[next].broken
  /\ LET d == Device(dump[next], stack) IN
       /\ ~KeyError(d)
       /\ udev_devices' = IF Ignored(d) THEN udev_devices ELSE Append(udev_devices, Attributes(d))
       /\ stack' = Pushed(d)
  /\ next' = next + 1
  /\ UNCHANGED <<dump, how>>

EndOfDump ==
  /\ how = "reading" /\ next = Len(dump) + 1
  /\ how' = "end"
  /\ UNCHANGED <<dump, next, stack, udev_devices>>

UdevNext == RaiseUnsupported \/ RaiseNoModel \/ ReadRecord \/ EndOfDump

---------------------------------------------------------------------------
(* Properties *)

Before(p, q) == Len(p) < Len(q) /\ SubSeq(q, 1, Len(p)) = p

\* The stack holds exactly the records read so far that are above the last one,
\* the outermost first; a disk is also above what is beside it.
StackIsAncestry ==
  next > 1 =>
    LET last == dump[next - 1] IN
    /\ stack # <<>> /\ stack[Len(stack)].path = last.path
    /\ \A i \in 1 .. next - 2 :
         Before(dump[i].path, last.path) => \E j \in DOMAIN stack : stack[j].path = dump[i].path
    /\ \A j \in 1 .. Len(stack) - 1 :
         \/ Before(stack[j].path, last.path)
         \/ IsDisk(stack[j]) /\ Before(Path(stack[j]), last.path)
    /\ \A j, k \in DOMAIN stack : j < k => ~Before(stack[k].path, stack[j].path)

\* What of a device is reported does not depend on the devices that are read
\* before it and that are not above it, save for a device beside a disk.
AloneDevice[n \in Nat] ==
  LET above == SelectSeq(SubSeq(dump, 1, n - 1), LAMBDA r : Before(r.path, dump[n].path))
      chain[i \in 0 .. Len(above)] ==
        IF i = 0 THEN <<>>
        ELSE Append(chain[i - 1], [path |-> above[i].path, env |-> above[i].env, above |-> chain[i - 1]])
  IN [path |-> dump[n].path, env |-> dump[n].env, above |-> chain[Len(above)]]

BesideDisk(n) ==
  \E i \in 1 .. n - 1 :
    LET d == AloneDevice[i]
    IN IsDisk(d) /\ ~Before(d.path, dump[n].path) /\ Before(Path(d), dump[n].path)

ReportedAsAlone ==
  \A n \in 1 .. next - 1 :
    ~BesideDisk(n) =>
      {udev_devices[i] : i \in {j \in DOMAIN udev_devices : udev_devices[j].device = dump[n].path}}
        = IF Ignored(AloneDevice[n]) THEN {} ELSE {Attributes(AloneDevice[n])}

\* A drive and its disk, which are reported under one path, are not told to be
\* of two kinds, unless the driver or the variables of the disk say what those
\* of the drive do not.
DriveIsOneThing ==
  \A i, j \in DOMAIN udev_devices :
    (udev_devices[i].path = udev_devices[j].path /\ udev_devices[i].product = udev_devices[j].product) =>
      {udev_devices[i].category, udev_devices[j].category} # {"DISK", "CARDREADER"}
=============================================================================
