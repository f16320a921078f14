-------------------------------- MODULE Config --------------------------------
(***************************************************************************)
(* The file .kubewatch.yaml and the commands that change and use it:       *)
(* src/config/config.go, the commands of src/cmd, Run of                   *)
(* src/pkg/client/run.go and Init of the handlers in src/pkg/handlers.     *)
(*                                                                         *)
(* A configuration is the set of its fields that are not zero; what a      *)
(* token or a url says is left out.  Every command is a process of its     *)
(* own that loads the whole file, changes its copy and writes all of it    *)
(* back, so two commands can overlap.  The directory does not change, and  *)
(* nobody removes the file.                                                *)
(***************************************************************************)
EXTENDS Naturals

CONSTANTS
    Procs,          \* processes that run commands
    Resources,      \* flags of the resource command (13 in the code)
    Commands,       \* the commands that are given
    Files,          \* what the file may be at first
    Environments,   \* environments of the processes
    MaxCommands,    \* bound: commands
    MaxDeaths       \* bound: processes that fail or are killed

VARIABLES
    env,        \* kw: fields with a variable KW_..., bare: SLACK_... without KW_
    file,
    proc,       \* the command of each process, its step and its copy conf;
                \* history: base, the file when it began, and alone, nothing
                \* else has run since
    commands, deaths,
    started     \* history: the configuration the last root command loaded
                \* and the handler it started, "fatal" if none

vars == <<env, file, proc, commands, deaths, started>>

Section(name, fields) == {name} \X fields
Slack == Section("slack", {"token", "channel"})
Hipchat == Section("hipchat", {"token", "room", "url"})
Mattermost == Section("mattermost", {"channel", "url", "username"})
Flock == Section("flock", {"url"})
Webhook == Section("webhook", {"url"})
Resource == Section("resource", Resources)
Fields == Slack \cup Hipchat \cup Mattermost \cup Flock \cup Webhook
          \cup Resource
Handlers == {"slack", "hipchat", "mattermost", "flock", "webhook", "default"}

AllCommands ==
    [name : {"add", "remove"}, flags : SUBSET Resource]
    \cup [name : {"slack"}, flags : SUBSET Slack]
    \cup [name : {"hipchat"}, flags : SUBSET Hipchat]
    \cup [name : {"mattermost"}, flags : SUBSET Mattermost]
    \cup [name : {"flock"}, flags : SUBSET Flock]
    \cup [name : {"webhook"}, flags : SUBSET Webhook]
    \cup [name : {"root"}, flags : {{}}]

\* "empty" and "whole" with nothing set load alike.  "broken" is no yaml.
Absent == [state |-> "absent", conf |-> {}]
Empty == [state |-> "empty", conf |-> {}]
Broken == [state |-> "broken", conf |-> {}]
Whole(conf) == [state |-> "whole", conf |-> conf]
FileStates == {Absent, Empty, Broken} \cup {Whole(c) : c \in SUBSET Fields}

RootCommand == [name |-> "root", flags |-> {}]
Idle == [at |-> "idle", cmd |-> RootCommand, conf |-> {}, base |-> Empty,
         alone |-> FALSE]
NotStarted == [conf |-> {}, handler |-> "none"]

ASSUME ConfigAssumption ==
    /\ Commands \subseteq AllCommands /\ Files \subseteq FileStates
    /\ \A e \in Environments : e.kw \subseteq Fields /\ e.bare \subseteq Slack
    /\ MaxCommands \in Nat /\ MaxDeaths \in Nat

Init ==
    /\ env \in Environments
    /\ file \in Files
    /\ proc = [p \in Procs |-> Idle]
    /\ commands = 0
    /\ deaths = 0
    /\ started = NotStarted

-----------------------------------------------------------------------------
(* What the commands make of their copy.                                   *)

ConfigureResource(cmd, conf) ==
    IF cmd.name = "add" THEN conf \cup cmd.flags ELSE conf \ cmd.flags

AddSlack(flags, conf) == conf \cup flags

\* The flag --url exists and is not read.
AddHipchat(flags, conf) == conf \cup (flags \ {<<"hipchat", "url">>})

\* The username is set, or cleared, when there is a --url.
AddMattermost(flags, conf) ==
    LET url == <<"mattermost", "url">>
        username == <<"mattermost", "username">>
    IN  IF url \in flags THEN (conf \ {username}) \cup flags
        ELSE conf \cup (flags \ {username})

AddFlock(flags, conf) == conf \cup flags

AddWebhook(flags, conf) == conf \cup flags

Changed(cmd, conf) ==
    CASE cmd.name \in {"add", "remove"} -> ConfigureResource(cmd, conf)
      [] cmd.name = "slack" -> AddSlack(cmd.flags, conf)
      [] cmd.name = "hipchat" -> AddHipchat(cmd.flags, conf)
      [] cmd.name = "mattermost" -> AddMattermost(cmd.flags, conf)
      [] cmd.name = "flock" -> AddFlock(cmd.flags, conf)
      [] cmd.name = "webhook" -> AddWebhook(cmd.flags, conf)
      [] cmd.name = "root" -> conf

-----------------------------------------------------------------------------
(* The root command, once the file is loaded.                              *)

\* SLACK_TOKEN and SLACK_CHANNEL count here, KW_SLACK_... do not.
CheckMissingResourceEnvvars(conf) ==
    conf \cup (env.kw \cap Resource) \cup env.bare

\* What a handler must have, from the file or from the environment.
checkMissingSlackVars(s) == Slack \subseteq s
checkMissingHipchatVars(s) == Section("hipchat", {"token", "room"}) \subseteq s
checkMissingMattermostVars(s) == Mattermost \subseteq s
checkMissingFlockVars(s) == Flock \subseteq s
checkMissingWebhookVars(s) == Webhook \subseteq s

\* Init of the handlers: a field the file lacks comes from its variable KW_...
SlackInit(conf) == checkMissingSlackVars(conf \cup env.kw)
HipchatInit(conf) == checkMissingHipchatVars(conf \cup env.kw)
MattermostInit(conf) == checkMissingMattermostVars(conf \cup env.kw)
FlockInit(conf) == checkMissingFlockVars(conf \cup env.kw)
WebhookInit(conf) == checkMissingWebhookVars(conf \cup env.kw)

HandlerInit(h, conf) ==
    CASE h = "slack" -> SlackInit(conf)
      [] h = "hipchat" -> HipchatInit(conf)
      [] h = "mattermost" -> MattermostInit(conf)
      [] h = "flock" -> FlockInit(conf)
      [] h = "webhook" -> WebhookInit(conf)
      [] h = "default" -> TRUE

\* Faulty: there is no case for mattermost.
SelectNoMattermost(conf) ==
    LET Has(name, fields) == conf \cap Section(name, fields) # {} IN
    IF Has("slack", {"token", "channel"}) THEN "slack"
    ELSE IF Has("hipchat", {"token", "room"}) THEN "hipchat"
    ELSE IF Has("flock", {"url"}) THEN "flock"
    ELSE IF Has("webhook", {"url"}) THEN "webhook"
    ELSE "default"

\* The switch of Run: the first handler with a field in the file.
Select(conf) ==
    LET Has(name, fields) == conf \cap Section(name, fields) # {} IN
    IF Has("slack", {"token", "channel"}) THEN "slack"
    ELSE IF Has("hipchat", {"token", "room"}) THEN "hipchat"
    ELSE IF Has("mattermost", {"channel", "url"}) THEN "mattermost"
    ELSE IF Has("flock", {"url"}) THEN "flock"
    ELSE IF Has("webhook", {"url"}) THEN "webhook"
    ELSE "default"

\* A handler that misses a field ends the process.
Run(conf) ==
    LET h == Select(conf) IN IF HandlerInit(h, conf) THEN h ELSE "fatal"

-----------------------------------------------------------------------------
(* The steps of a command.                                                 *)

Step(p, at) ==
    /\ proc' = [proc EXCEPT ![p].at = at]
    /\ UNCHANGED <<env, commands, deaths, started>>

\* A command is given.
Begin(p, cmd) ==
    /\ proc[p].at = "idle"
    /\ commands < MaxCommands
    /\ commands' = commands + 1
    /\ proc' = [q \in Procs |->
            IF q # p THEN [proc[q] EXCEPT !.alone = FALSE]
            ELSE [at |-> "stat", cmd |-> cmd, conf |-> {}, base |-> file,
                  alone |-> \A r \in Procs : proc[r].at = "idle"]]
    /\ UNCHANGED <<env, file, deaths, started>>

\* Faulty: a missing file is not created.
StatNeverCreates(p) ==
    /\ proc[p].at = "stat"
    /\ Step(p, "read")
    /\ UNCHANGED file

\* Faulty: the file is created in any case.
StatAlwaysCreates(p) ==
    /\ proc[p].at = "stat"
    /\ Step(p, "create")
    /\ UNCHANGED file

\* createIfNotExist looks for the file ...
Stat(p) ==
    /\ proc[p].at = "stat"
    /\ Step(p, IF file = Absent THEN "create" ELSE "read")
    /\ UNCHANGED file

\* ... and creates it; os.Create empties a file that has appeared meanwhile.
Create(p) ==
    /\ proc[p].at = "create"
    /\ file' = Empty
    /\ Step(p, "read")

\* Faulty: a file that cannot be parsed counts as an empty one.
ParsesAnything(f) == TRUE

\* yaml.Unmarshal; an empty file is no error.
Parses(f) == f # Broken

\* Faulty: the command starts from an empty configuration.
LoadedNothing(f) == {}

\* The configuration Load returns for a file.
Loaded(f) == f.conf

\* The rest of Load, and what the command does in its own memory: the root
\* command ends here, a file with an error ends any command.
Load(p) ==
    LET cmd == proc[p].cmd
        conf == Loaded(file)
    IN  /\ proc[p].at = "read"
        /\ IF Parses(file) /\ cmd.name # "root"
           THEN proc' = [proc EXCEPT ![p].at = "truncate",
                                     ![p].conf = Changed(cmd, conf)]
           ELSE proc' = [proc EXCEPT ![p] = Idle]
        /\ started' = IF Parses(file) /\ cmd.name = "root"
              THEN [conf |-> conf,
                    handler |-> Run(CheckMissingResourceEnvvars(conf))]
              ELSE started
        /\ UNCHANGED <<env, file, commands, deaths>>

\* ioutil.WriteFile opens the file with O_TRUNC ...
Truncate(p) ==
    /\ proc[p].at = "truncate"
    /\ file' = Empty
    /\ Step(p, "write")

\* ... and writes from its start.  If another process has written since, the
\* end of a longer text stays behind: it is unknown keys, which yaml ignores,
\* or an error.
Write(p) ==
    /\ proc[p].at = "write"
    /\ file' \in {Whole(proc[p].conf)}
                 \cup IF file = Empty THEN {} ELSE {Broken}
    /\ proc' = [proc EXCEPT ![p] = Idle]
    /\ UNCHANGED <<env, commands, deaths, started>>

\* The process is killed, or a call on the file fails and logrus.Fatal ends
\* it.
Die(p) ==
    /\ proc[p].at # "idle"
    /\ deaths < MaxDeaths
    /\ deaths' = deaths + 1
    /\ proc' = [proc EXCEPT ![p] = Idle]
    /\ UNCHANGED <<env, file, commands, started>>

Next ==
    \E p \in Procs :
        \/ \E cmd \in Commands : Begin(p, cmd)
        \/ Stat(p) \/ Create(p) \/ Load(p) \/ Truncate(p) \/ Write(p) \/ Die(p)

Spec == Init /\ [][Next]_vars

-----------------------------------------------------------------------------
(* Properties.                                                             *)

\* Every variable has its type, and a file that was found is there for good.
TypeOK ==
    /\ env \in Environments
    /\ file \in FileStates
    /\ \A p \in Procs :
        /\ proc[p].at \in {"idle", "stat", "create", "read", "truncate", "write"}
        /\ proc[p].cmd \in Commands \cup {RootCommand}
        /\ proc[p].conf \subseteq Fields
        /\ proc[p].base \in FileStates
        /\ proc[p].alone \in BOOLEAN
        /\ proc[p].at \in {"read", "truncate", "write"} => file # Absent
    /\ commands \in 0..MaxCommands /\ deaths \in 0..MaxDeaths
    /\ started.conf \subseteq Fields
    /\ started.handler \in Handlers \cup {"none", "fatal"}

\* The section of the file a command is about.
SectionOf(cmd) ==
    IF cmd.name \in {"add", "remove"} THEN "resource" ELSE cmd.name

\* A command that no other one overlaps leaves all other sections of the
\* file as they were, and a root command or a command that could not read the
\* file leaves all of it; if it fails or is killed, the file is as it was or
\* empty.
Ends(p) == proc[p].at # "idle" /\ proc'[p].at = "idle"
AloneLosesNothing ==
    [][\A p \in Procs : Ends(p) /\ proc[p].alone =>
        \/ /\ file'.state = "whole" /\ proc[p].base # Broken
           /\ \A f \in Fields : f[1] # SectionOf(proc[p].cmd) =>
                (f \in file'.conf <=> f \in proc[p].base.conf)
        \/ file' = proc[p].base
        \/ file' = Empty /\ (deaths' > deaths \/ proc[p].base = Absent)]_vars

\* Commands that overlap can drop each other's changes but never empty a
\* configuration: its text is in the file or about to be written, until a
\* process fails or is killed, or one that began before there was a file
\* creates it again.
Kept ==
    \/ file.state \in {"whole", "broken"}
    \/ \E p \in Procs : proc[p].at = "write"
ConfigSurvives ==
    [][Kept /\ ~Kept' =>
        \/ deaths' > deaths
        \/ \E p \in Procs : proc[p].at = "create" /\ proc[p].base = Absent]_vars

\* A file that two overlapping writes have broken stays so, unless a process
\* loaded it before: every later command ends with the parse error and none
\* repairs it.
Unrepaired ==
    /\ file = Broken
    /\ \A p \in Procs : proc[p].at \in {"idle", "stat", "read"}
BrokenForGood == [][Unrepaired => Unrepaired']_vars

\* If the file has the fields of one handler only, and all it needs, the root
\* command starts that handler, unless SLACK_TOKEN or SLACK_CHANNEL is set.
Needs ==
    [slack |-> Slack, hipchat |-> Section("hipchat", {"token", "room"}),
     mattermost |-> Mattermost, flock |-> Flock, webhook |-> Webhook]
ConfiguredHandlerRuns ==
    \A h \in DOMAIN Needs :
        /\ started.handler # "none"
        /\ env.bare = {}
        /\ Needs[h] \subseteq started.conf
        /\ \A f \in started.conf : f[1] \in {h, "resource"}
        => started.handler = h

\* What the README says of slack, "You have an altenative choice to set your
\* SLACK token, channel via environment variables": with both variables set
\* and no handler in the file, the root command starts the slack handler.
EnvironmentSuffices ==
    /\ started.handler # "none"
    /\ started.conf \subseteq Resource
    /\ Slack \subseteq env.kw
    => started.handler = "slack"
=============================================================================
