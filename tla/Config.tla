------------------------------- MODULE Config -------------------------------
(***************************************************************************)
(* The configuration of client and server: RawConfig::parse, which merges  *)
(* the command line, the JSON file and the defaults, and the part of       *)
(* Config::parse that can refuse or unwrap its result                      *)
(* (client/src/config.rs, server/src/config.rs).                           *)
(*                                                                         *)
(* A value is known by where it comes from: "cmd", "file" or "default".    *)
(* On the command line an option is absent, good, bad (its parse fails) or *)
(* repeated; in the file a field is absent, good, bad or an empty list.    *)
(* getopts refuses every option declared with optopt or optflag that comes *)
(* twice, and all of them are, also those the usage text allows to repeat. *)
(***************************************************************************)
EXTENDS Naturals, Sequences

Program == {"client", "server"}

\* The options RawConfig::parse has to find, then those it looks at
\* afterwards, in the code's order.
Required(p) ==
    IF p = "client" THEN <<"server", "server-port", "token", "local-port">>
    ELSE <<"port", "token", "certificate", "private-key">>

Optional(p) ==
    IF p = "client"
    THEN <<"server-ip", "certificate", "udp-relay-mode",
           "congestion-controller", "heartbeat-interval", "alpn",
           "disable-sni", "reduce-rtt", "request-timeout",
           "max-udp-relay-packet-size", "local-ip", "local-username",
           "local-password", "log-level">>
    ELSE <<"ip", "congestion-controller", "max-idle-time",
           "authentication-timeout", "max-udp-relay-packet-size", "alpn",
           "log-level">>

Order(p) == Required(p) \o Optional(p)

OptionSet(p) == {Order(p)[i] : i \in 1..Len(Order(p))}

IsRequired(p, o) == \E i \in 1..Len(Required(p)) : o = Required(p)[i]

\* Options whose text is parsed: ports, addresses, numbers and names.
Parsed(o) ==
    o \in {"server-port", "local-port", "port", "server-ip", "udp-relay-mode",
           "congestion-controller", "heartbeat-interval", "request-timeout",
           "max-udp-relay-packet-size", "local-ip", "log-level", "ip",
           "max-idle-time", "authentication-timeout"}

\* Options whose field is an Option that is None by default.
NoDefault(p, o) ==
    IsRequired(p, o) \/ o \in {"server-ip", "local-username", "local-password"}

\* Fields that serde does not let a file leave out, be the option on the
\* command line, ...
MandatoryField(p, o) == p = "server" /\ o = "token"

\* ... and the sections of the client's file, which have no default either.
Sections(p) == IF p = "client" THEN {"relay", "local"} ELSE {}

SectionOf(o) ==
    IF o \in {"local-port", "local-ip", "local-username", "local-password"}
    THEN "local" ELSE "relay"

InSection(p, o) == p = "client" /\ o # "log-level"

\* Fields that hold a list, which may be empty.
ListField(p, o) ==
    o = "alpn" \/ (p = "client" /\ o = "certificate")
               \/ (p = "server" /\ o = "token")

VARIABLES
    program,   \* which of the two
    cmd,       \* the options on the command line
    other,     \* what else is on it: nothing, help, version, free arguments
    path,      \* the -c option: none, missing (no such file) or file
    sections,  \* the sections of the file
    file,      \* the fields of the file
    raw,       \* RawConfig
    pc,        \* args, file, merge, build, ok or error
    at,        \* the option RawConfig::parse looks at
    error      \* the ConfigError, and the option it is about

vars == <<program, cmd, other, path, sections, file, raw, pc, at, error>>

input == <<program, cmd, other, path, sections, file>>

CmdValue == {"absent", "good", "bad", "twice"}

FileValue == {"absent", "good", "bad", "empty"}

OtherArgument == {"Help", "Version", "UnexpectedArguments"}

RawValue == {"none", "cmd", "file", "default"}

TypeOK ==
    /\ program \in Program
    /\ cmd \in [OptionSet(program) -> CmdValue]
    /\ other \in {"none"} \cup OtherArgument
    /\ path \in {"none", "missing", "file"}
    /\ sections \in SUBSET Sections(program)
    /\ file \in [OptionSet(program) -> FileValue]
    /\ raw \in [OptionSet(program) -> RawValue]
    /\ pc \in {"args", "file", "merge", "build", "ok", "error"}
    /\ at \in 1..Len(Order(program)) + 1
    /\ error \in OtherArgument \cup {"", "ParseArgument", "Io",
           "ParseConfigJson", "MissingOption", "Parse", "LocalAuthentication",
           "Certificate"}

\* RawConfig::default.
DefaultOf(p, o) == IF NoDefault(p, o) THEN "none" ELSE "default"

\* The inputs: only text that is parsed can be bad, only lists can be empty,
\* and a field is in its section.
Input ==
    /\ program \in Program
    /\ cmd \in [OptionSet(program) -> CmdValue]
    /\ \A o \in OptionSet(program) : cmd[o] = "bad" => Parsed(o)
    /\ other \in {"none"} \cup OtherArgument
    /\ path \in {"none", "missing", "file"}
    /\ sections \in SUBSET Sections(program)
    /\ file \in [OptionSet(program) -> FileValue]
    /\ \A o \in OptionSet(program) :
           /\ file[o] = "empty" => ListField(program, o)
           /\ file[o] # "absent" /\ InSection(program, o) =>
                  SectionOf(o) \in sections

Init ==
    /\ Input
    /\ raw = [o \in OptionSet(program) |-> DefaultOf(program, o)]
    /\ pc = "args"
    /\ at = 1
    /\ error = ""

Fail(e) ==
    /\ pc' = "error"
    /\ error' = e
    /\ UNCHANGED <<input, raw, at>>

-----------------------------------------------------------------------------
\* opts.parse, and what ends parse at once.
ParseArgs ==
    /\ pc = "args"
    /\ \/ (\E o \in DOMAIN cmd : cmd[o] = "twice") /\ Fail("ParseArgument")
       \/ /\ \A o \in DOMAIN cmd : cmd[o] # "twice"
          /\ other # "none"
          /\ Fail(other)
       \/ /\ \A o \in DOMAIN cmd : cmd[o] # "twice"
          /\ other = "none"
          /\ pc' = IF path = "none" THEN "merge" ELSE "file"
          /\ UNCHANGED <<input, raw, at, error>>

\* A field of the file, as serde fills it in.
FieldOf(o) ==
    CASE file[o] = "good" -> "file"
      [] file[o] = "empty" -> IF IsRequired(program, o) THEN "none" ELSE "file"
      [] OTHER -> DefaultOf(program, o)

BadFile ==
    \/ sections # Sections(program)
    \/ \E o \in DOMAIN file :
          file[o] = "bad" \/ (file[o] = "absent" /\ MandatoryField(program, o))

\* RawConfig::from_file.
FromFile ==
    /\ pc = "file"
    /\ \/ path = "missing" /\ Fail("Io")
       \/ path = "file" /\ BadFile /\ Fail("ParseConfigJson")
       \/ /\ path = "file" /\ ~BadFile
          /\ raw' = [o \in OptionSet(program) |-> FieldOf(o)]
          /\ pc' = "merge"
          /\ UNCHANGED <<input, at, error>>

\* One option: the command line's value if there is one, after its parse; a
\* required one must be there by now.
MergeOption_FileFirst(o) ==
    /\ raw' = [raw EXCEPT ![o] = IF cmd[o] = "good" /\ @ # "file"
                                 THEN "cmd" ELSE @]
    /\ at' = at + 1
    /\ UNCHANGED <<input, pc, error>>

MergeOption_Optional(o) ==
    \/ cmd[o] = "bad" /\ Fail("Parse")
    \/ /\ cmd[o] # "bad"
       /\ raw' = [raw EXCEPT ![o] = IF cmd[o] = "good" THEN "cmd" ELSE @]
       /\ at' = at + 1
       /\ UNCHANGED <<input, pc, error>>

MergeOption_CmdOnly(o) ==
    \/ cmd[o] = "bad" /\ Fail("Parse")
    \/ cmd[o] = "absent" /\ IsRequired(program, o) /\ Fail("MissingOption")
    \/ /\ cmd[o] = "good" \/ (cmd[o] = "absent" /\ ~IsRequired(program, o))
       /\ raw' = [raw EXCEPT ![o] = IF cmd[o] = "good" THEN "cmd" ELSE @]
       /\ at' = at + 1
       /\ UNCHANGED <<input, pc, error>>

MergeOption_IgnoreBad(o) ==
    \/ cmd[o] # "good" /\ IsRequired(program, o) /\ raw[o] = "none"
                       /\ Fail("MissingOption")
    \/ /\ cmd[o] = "good" \/ (IsRequired(program, o) => raw[o] # "none")
       /\ raw' = [raw EXCEPT ![o] = IF cmd[o] = "good" THEN "cmd" ELSE @]
       /\ at' = at + 1
       /\ UNCHANGED <<input, pc, error>>

MergeOption(o) ==
    \/ cmd[o] = "bad" /\ Fail("Parse")
    \/ /\ cmd[o] = "absent" /\ IsRequired(program, o) /\ raw[o] = "none"
       /\ Fail("MissingOption")
    \/ /\ cmd[o] # "bad"
       /\ cmd[o] = "good" \/ (IsRequired(program, o) => raw[o] # "none")
       /\ raw' = [raw EXCEPT ![o] = IF cmd[o] = "good" THEN "cmd" ELSE @]
       /\ at' = at + 1
       /\ UNCHANGED <<input, pc, error>>

Merge ==
    /\ pc = "merge" /\ at <= Len(Order(program))
    /\ MergeOption(Order(program)[at])

Merged ==
    /\ pc = "merge" /\ at > Len(Order(program))
    /\ pc' = "build"
    /\ UNCHANGED <<input, raw, at, error>>

\* (username, password) are both there or neither.
AuthAgrees ==
    program = "client" =>
        (raw["local-username"] = "none" <=> raw["local-password"] = "none")

\* Config::parse: the certificates are loaded, then the client's local
\* authentication is looked at.
Build ==
    /\ pc = "build"
    /\ \/ Fail("Certificate")
       \/ ~AuthAgrees /\ Fail("LocalAuthentication")
       \/ /\ AuthAgrees
          /\ pc' = "ok"
          /\ UNCHANGED <<input, raw, at, error>>

Next == ParseArgs \/ FromFile \/ Merge \/ Merged \/ Build

Spec == Init /\ [][Next]_vars

-----------------------------------------------------------------------------
(***************************************************************************)
(* Properties.                                                             *)
(***************************************************************************)

\* What the usage text promises: the command line overrides the file, and the
\* file the defaults.
Expected(o) ==
    IF cmd[o] = "good" THEN "cmd"
    ELSE IF path = "file" /\ file[o] \in {"good", "empty"} THEN "file"
    ELSE DefaultOf(program, o)

\* A configuration that is accepted has every option from the place the usage
\* text says, whichever branch of parse it came through.
Precedence == pc = "ok" => \A o \in DOMAIN raw : raw[o] = Expected(o)

\* Config::parse unwraps the required options, and never meets None.
UnwrapSafe ==
    pc \in {"build", "ok"} =>
        \A o \in DOMAIN raw : IsRequired(program, o) => raw[o] # "none"

\* A configuration is refused as incomplete only when a required option is
\* given neither on the command line nor, if there is one, in the file.  (A
\* server's file without a token list and a client's without a section are
\* refused by serde before that, whatever the command line has.)
MissingIsMissing ==
    error = "MissingOption" =>
        \E o \in DOMAIN raw :
            /\ IsRequired(program, o) /\ cmd[o] = "absent"
            /\ path # "file" \/ file[o] # "good"

\* The options that the usage text says can be used multiple times.
Repeatable(p, o) ==
    o = "alpn" \/ (p = "server" /\ o = "token")
               \/ (p = "client" /\ o = "certificate")

\* What is wrong anywhere in the input is not passed over: an accepted
\* configuration had no bad value on the command line or in its file, no
\* option twice that can be used once, and no file that leaves out what has
\* no default.
NothingOverlooked ==
    pc = "ok" =>
        /\ \A o \in DOMAIN cmd :
               /\ cmd[o] # "bad"
               /\ cmd[o] = "twice" => Repeatable(program, o)
        /\ other = "none" /\ path # "missing"
        /\ path = "file" =>
               /\ sections = Sections(program)
               /\ \A o \in DOMAIN file : file[o] # "bad"

\* What the usage text says of --token, --alpn and --certificate, "This option
\* can be used multiple times": a command line is not refused for that alone.
RepeatedIsAccepted ==
    error = "ParseArgument" =>
        \E o \in DOMAIN cmd : cmd[o] = "twice" /\ ~Repeatable(program, o)
=============================================================================
