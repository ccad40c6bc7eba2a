---------------------------- MODULE PluginStart ----------------------------
(***************************************************************************)
(* How checkbox starts: the configuration files and those that they        *)
(* include are read (checkbox/lib/config.py), the overrides of the command *)
(* line are set, and the plugins of a section are loaded one by one, their *)
(* attributes set from the section of the plugin or from their defaults    *)
(* and converted (checkbox/component.py, variables.py), until one fails or *)
(* all are registered with the reactor.                                    *)
(*                                                                         *)
(* ConfigParser is external: a value is a text or a reference %(key)s to   *)
(* another, references are at most two deep, and files have no errors of   *)
(* syntax.  One file has each path and one section has the plugins.        *)
(***************************************************************************)
EXTENDS Naturals, Sequences, SequencesExt, FiniteSets

CONSTANTS
  Setups,       \* what may be given: [files, environment, overrides]
  Attributes,   \* plugin -> attribute -> [type, default, required]
  SectionOf,    \* plugin -> the name of its section
  Patterns,     \* name in an override -> the sections that it matches as a pattern
  Found,        \* value of modules -> the plugins there
  NamedBy,        \* value of a white or black list -> the plugins that match one of it
  Yes, No, Integers_, \* the texts that begin with yes or true, no or false; the numbers
  MaxIncludes   \* bound: where the stack of python ends

VARIABLES
  setup, start_at, reading, defaults, unjoined, sections, overrides, todo,
  attributes,   \* plugin -> attribute -> value, for the plugins that are loaded
  given         \* the settings that were read, in order

vars == <<setup, start_at, reading, defaults, unjoined, sections, overrides, todo,
          attributes, given>>

Lit(t) == [ref |-> "", text |-> t]
Ref(k) == [ref |-> k, text |-> ""]
Missing == Ref("missing")
NoValue == Lit("None")

Main == "main"                   \* the file of the command line
Client == "plugins/client_info"

\* What a reference stands for: the section's value or the default.
Lookup(map, v) == IF v.ref = "" THEN v ELSE IF v.ref \in DOMAIN map THEN map[v.ref] ELSE Missing
Resolve(map, v) == Lookup(map, Lookup(map, v))

\* The CHECKBOX variables, in small letters.
Environment == [k \in DOMAIN setup.environment |-> Lit(setup.environment[k])]

TypeOK ==
  /\ setup \in Setups
  /\ start_at \in {"reading", "overriding", "loading", "run", "failed"}
  /\ Len(reading) <= MaxIncludes /\ unjoined \subseteq DOMAIN defaults
  /\ todo \subseteq DOMAIN Attributes /\ DOMAIN attributes \subseteq DOMAIN Attributes

Init ==
  /\ setup \in Setups
  /\ start_at = "reading" /\ reading = <<setup.files[Main]>>
  /\ defaults = Environment /\ unjoined = {} /\ sections = <<>>
  /\ overrides = setup.overrides /\ todo = {} /\ attributes = <<>> /\ given = <<>>

Fail ==
  /\ start_at' = "failed"
  /\ UNCHANGED <<setup, reading, defaults, unjoined, sections, overrides, todo, attributes, given>>

---------------------------------------------------------------------------
(* Files *)

With(map, key, value) == [k \in DOMAIN map \cup {key} |-> IF k = key THEN value ELSE map[k]]

Section(name) == IF name \in DOMAIN sections THEN sections[name] ELSE <<>>

Setting == Head(Last(reading))

Read(rest) == reading' = Append(Front(reading), rest)

\* Keys are in small letters by now: no variable of the environment is one, and
\* the value of the file takes its place.
SetDefault(key, value) == With(defaults, key, value)

ReadSetting ==
  /\ start_at = "reading" /\ Last(reading) # <<>> /\ Setting.key # "includes"
  /\ Read(Tail(Last(reading)))
  /\ IF Setting.section = "DEFAULT"
     THEN /\ defaults' = SetDefault(Setting.key, Setting.value)
          /\ unjoined' = unjoined \cup {Setting.key} /\ UNCHANGED sections
     ELSE /\ sections' = With(sections, Setting.section,
                              With(Section(Setting.section), Setting.key, Setting.value))
          /\ UNCHANGED <<defaults, unjoined>>
  /\ given' = Append(given, Setting)
  /\ UNCHANGED <<setup, start_at, overrides, todo, attributes>>

\* The files are read at once, within the file that includes them.  A default
\* that a file still being read has set is a list of lines, and no text.
Includes ==
  /\ start_at = "reading" /\ Last(reading) # <<>> /\ Setting.key = "includes"
  /\ LET path == Resolve(defaults, Setting.value) IN
       IF \/ path.text \notin DOMAIN setup.files \/ Setting.value.ref \in unjoined
          \/ Len(reading) = MaxIncludes
       THEN Fail
       ELSE /\ reading' = Front(reading) \o <<Tail(Last(reading)), setup.files[path.text]>>
            /\ UNCHANGED <<setup, start_at, defaults, unjoined, sections, overrides, todo,
                           attributes, given>>

\* The lines of all values are joined, those of the including file, too.
EndOfFile ==
  /\ start_at = "reading" /\ Last(reading) = <<>>
  /\ reading' = Front(reading) /\ unjoined' = {}
  /\ start_at' = IF Len(reading) = 1 THEN "overriding" ELSE "reading"
  /\ UNCHANGED <<setup, defaults, sections, overrides, todo, attributes, given>>

---------------------------------------------------------------------------
(* Overrides *)

\* The name is a pattern; when no section matches, it is one.
Overridden(name) ==
  LET matching == DOMAIN sections \cap (Patterns[name] \cup {name})
  IN  IF matching = {} THEN {name} ELSE matching

SetOverride ==
  /\ start_at = "overriding" /\ overrides # <<>>
  /\ LET o == Head(overrides)
         names == Overridden(o.name)
     IN  /\ sections' = [s \in DOMAIN sections \cup names |->
                           IF s \in names THEN With(Section(s), o.key, o.value)
                           ELSE sections[s]]
         /\ given' = given \o SetToSeq({[section |-> s, key |-> o.key, value |-> o.value] : s \in names})
  /\ overrides' = Tail(overrides)
  /\ UNCHANGED <<setup, start_at, reading, defaults, unjoined, todo, attributes>>

---------------------------------------------------------------------------
(* Plugins *)

\* get_section(): the settings of a section over the defaults.
Merged(name) ==
  [k \in DOMAIN Section(name) \cup DOMAIN defaults |->
     IF k \in DOMAIN Section(name) THEN Section(name)[k] ELSE defaults[k]]

\* items(): every value is resolved, whether it is wanted or not.
IsResolved(name) ==
  \A k \in DOMAIN Merged(name) : Resolve(Merged(name), Merged(name)[k]).ref = ""

Value(name, key) ==
  IF key \in DOMAIN Merged(name) THEN Resolve(Merged(name), Merged(name)[key]).text ELSE ""

\* get_names(): the black list is for when there is no white list.
Names(name) ==
  LET found == Found[Value(name, "modules")]
  IN  CASE Value(name, "whitelist") # "" -> found \cap NamedBy[Value(name, "whitelist")]
        [] Value(name, "blacklist") # "" -> found \ NamedBy[Value(name, "blacklist")]
        [] OTHER                         -> found

\* The section of the client's name is there in any case; then the section of
\* the plugins is loaded, which needs its modules.
LoadSection ==
  /\ start_at = "overriding" /\ overrides = <<>>
  /\ LET name == defaults["plugins"].text
         client == With(With(Section(Client), "name", Lit(Main)), "version", defaults["version"])
     IN IF \/ ~{"plugins", "version"} \subseteq DOMAIN defaults
           \/ name \notin DOMAIN sections
           \/ ~IsResolved(name) \/ Value(name, "modules") \notin DOMAIN Found
        THEN Fail
        ELSE /\ sections' = With(sections, Client, client)
             /\ todo' = Names(name) /\ start_at' = "loading"
             /\ UNCHANGED <<setup, reading, defaults, unjoined, overrides, attributes, given>>

\* coerce(): a text for most, which is read as a number, or as a truth value
\* by how it begins.
Coerce(type, text) ==
  CASE type = "int"  -> IF text \in Integers_ THEN text ELSE "invalid"
    [] type = "bool" -> IF text \in Yes THEN "True" ELSE IF text \in No THEN "False" ELSE "invalid"
    [] OTHER         -> text

\* With a section for the plugin, the defaults of the configuration are before
\* that of the attribute, in which the environment is referred to.
Configured(p, a) ==
  IF SectionOf[p] \in DOMAIN sections /\ a \in DOMAIN Merged(SectionOf[p])
  THEN Resolve(Merged(SectionOf[p]), Merged(SectionOf[p])[a])
  ELSE Resolve(Environment, Attributes[p][a].default)

Converted(p, a, v) ==
  IF v = NoValue THEN NoValue.text ELSE Coerce(Attributes[p][a].type, v.text)

\* A value is needed, unless the attribute is not required.
IsSet(p, a) ==
  /\ Configured(p, a).ref = "" /\ Converted(p, a, Configured(p, a)) # "invalid"
  /\ Configured(p, a) = NoValue => ~Attributes[p][a].required

LoadModule(p) ==
  /\ start_at = "loading" /\ p \in todo
  /\ IF \/ ~IsResolved(SectionOf[p]) /\ SectionOf[p] \in DOMAIN sections
        \/ \E a \in DOMAIN Attributes[p] : ~IsSet(p, a)
     THEN Fail
     ELSE /\ attributes' = With(attributes, p,
                                [a \in DOMAIN Attributes[p] |-> Converted(p, a, Configured(p, a))])
          /\ todo' = todo \ {p}
          /\ UNCHANGED <<setup, start_at, reading, defaults, unjoined, sections, overrides, given>>

\* All modules of the section are loaded: they register, and the reactor runs.
Register ==
  /\ start_at = "loading" /\ todo = {}
  /\ start_at' = "run"
  /\ UNCHANGED <<setup, reading, defaults, unjoined, sections, overrides, todo, attributes, given>>

Next ==
  \/ ReadSetting \/ Includes \/ EndOfFile \/ SetOverride \/ LoadSection
  \/ \E p \in DOMAIN Attributes : LoadModule(p)
  \/ Register

Spec == Init /\ [][Next]_vars

---------------------------------------------------------------------------
(* Properties *)

Texts(s, k) == SelectSeq(given, LAMBDA e : e.section = s /\ e.key = k)

LastText(s, k) ==
  LET v == Last(Texts(s, k)).value
  IN  IF v.ref = "" THEN v.text
      ELSE IF Texts(s, v.ref) # <<>> THEN Last(Texts(s, v.ref)).value.text
      ELSE IF Texts("DEFAULT", v.ref) # <<>> THEN Last(Texts("DEFAULT", v.ref)).value.text
      ELSE setup.environment[v.ref]

\* What a plugin runs with is what was said last, in the order in which files
\* include each other and the command line follows: in its section, or else, if
\* it has one, in DEFAULT, or else its default.  A file prevails over the
\* environment, in references, against "environment has precedence over
\* configuration" (config.py:59).
LastSettingCounts ==
  start_at = "run" =>
    \A p \in DOMAIN attributes : SectionOf[p] # Client =>
      \A a \in DOMAIN Attributes[p] :
        LET s == SectionOf[p]
            hasSection == \E i \in DOMAIN given : given[i].section = s
            type == Attributes[p][a].type
        IN  CASE Texts(s, a) # <<>> -> attributes[p][a] = Coerce(type, LastText(s, a))
              [] Texts(s, a) = <<>> /\ hasSection /\ Texts("DEFAULT", a) # <<>> ->
                   attributes[p][a] = Coerce(type, LastText("DEFAULT", a))
              [] OTHER ->
                   attributes[p][a] = Converted(p, a, Resolve(Environment, Attributes[p][a].default))

\* An override is what the plugins run with whose section is in a file and is
\* matched by it, all of them, unless a later one is for the same option.
OverridesReachSections ==
  start_at = "run" =>
    \A i \in DOMAIN setup.overrides, p \in DOMAIN attributes :
      LET o == setup.overrides[i] IN
        /\ \E f \in DOMAIN setup.files : \E e \in ToSet(setup.files[f]) :
             e \in ToSet(given) /\ e.section = SectionOf[p]
        /\ SectionOf[p] \in Patterns[o.name] /\ o.key \in DOMAIN Attributes[p]
        /\ \A j \in i + 1..Len(setup.overrides) : setup.overrides[j].key # o.key
        => attributes[p][o.key] = Coerce(Attributes[p][o.key].type, o.value.text)

\* A white list is exhaustive: what is loaded is what it names, whatever the
\* black list says.
WhitelistIsExact ==
  start_at = "run" =>
    LET s == defaults["plugins"].text IN
      Texts(s, "whitelist") # <<>> =>
        DOMAIN attributes = Found[LastText(s, "modules")] \cap NamedBy[LastText(s, "whitelist")]
=============================================================================
