----------------------------- MODULE ConfigProofs -----------------------------
(***************************************************************************)
(* Proofs about the configuration file and the commands (module Config):   *)
(* types, what overlapping commands cannot do to the file, what a command  *)
(* that runs alone leaves of it, and the handler the root command starts.  *)
(***************************************************************************)
EXTENDS Config, TLAPS

\* The control points of a command, and its locals.
Points == {"idle", "stat", "create", "read", "truncate", "write"}
Processes == [at : Points, cmd : Commands \cup {RootCommand},
              conf : SUBSET Fields, base : FileStates, alone : BOOLEAN]

\* The types, with the records in full; a file that was found stays.
Typed ==
    /\ env \in Environments
    /\ file \in FileStates
    /\ proc \in [Procs -> Processes]
    /\ commands \in 0..MaxCommands /\ deaths \in 0..MaxDeaths
    /\ started \in [conf : SUBSET Fields, handler : Handlers \cup {"none", "fatal"}]

\* A command past the stat has found or created the file.
FoundInv ==
    \A p \in Procs : proc[p].at \in {"read", "truncate", "write"} => file # Absent

\* A process that creates the file began before there was one.
CreateInv ==
    \A p \in Procs :
        /\ proc[p].at # "idle" /\ proc[p].base # Absent => file # Absent
        /\ proc[p].at = "create" => proc[p].base = Absent

-----------------------------------------------------------------------------
(* What the operators return.                                              *)

\* The fields of a section carry its name.
LEMMA Sections ==
    /\ \A f \in Slack : f \in Fields /\ f[1] = "slack"
    /\ \A f \in Hipchat : f \in Fields /\ f[1] = "hipchat"
    /\ \A f \in Mattermost : f \in Fields /\ f[1] = "mattermost"
    /\ \A f \in Flock : f \in Fields /\ f[1] = "flock"
    /\ \A f \in Webhook : f \in Fields /\ f[1] = "webhook"
    /\ \A f \in Resource : f \in Fields /\ f[1] = "resource"
  BY DEF Slack, Hipchat, Mattermost, Flock, Webhook, Resource, Section, Fields

\* A command is given flags of its own section only.
LEMMA Flags ==
    ASSUME NEW cmd \in AllCommands
    PROVE  /\ cmd.name \in {"add", "remove", "slack", "hipchat", "mattermost",
                            "flock", "webhook", "root"}
           /\ \A f \in cmd.flags : f \in Fields /\ f[1] = SectionOf(cmd)
<1>1. CASE cmd \in [name : {"add", "remove"}, flags : SUBSET Resource]
  BY <1>1, Sections DEF SectionOf
<1>2. CASE cmd \in [name : {"slack"}, flags : SUBSET Slack]
  BY <1>2, Sections DEF SectionOf
<1>3. CASE cmd \in [name : {"hipchat"}, flags : SUBSET Hipchat]
  BY <1>3, Sections DEF SectionOf
<1>4. CASE cmd \in [name : {"mattermost"}, flags : SUBSET Mattermost]
  BY <1>4, Sections DEF SectionOf
<1>5. CASE cmd \in [name : {"flock"}, flags : SUBSET Flock]
  BY <1>5, Sections DEF SectionOf
<1>6. CASE cmd \in [name : {"webhook"}, flags : SUBSET Webhook]
  BY <1>6, Sections DEF SectionOf
<1>7. CASE cmd \in [name : {"root"}, flags : {{}}]
  BY <1>7
<1> QED BY <1>1, <1>2, <1>3, <1>4, <1>5, <1>6, <1>7 DEF AllCommands

\* A command changes fields of its own section only.
LEMMA ChangedSection ==
    ASSUME NEW cmd \in AllCommands, NEW c \in SUBSET Fields
    PROVE  /\ Changed(cmd, c) \subseteq Fields
           /\ \A f \in Fields : f[1] # SectionOf(cmd) =>
                (f \in Changed(cmd, c) <=> f \in c)
<1>1. \A f \in cmd.flags : f \in Fields /\ f[1] = SectionOf(cmd)
  BY Flags
<1>2. CASE cmd.name \in {"add", "remove"}
  <2>1. Changed(cmd, c) \in {c \cup cmd.flags, c \ cmd.flags}
    BY <1>2 DEF Changed, ConfigureResource
  <2> QED BY <1>1, <2>1
<1>3. CASE cmd.name \in {"slack", "flock", "webhook"}
  <2>1. Changed(cmd, c) = c \cup cmd.flags
    BY <1>3 DEF Changed, AddSlack, AddFlock, AddWebhook
  <2> QED BY <1>1, <2>1
<1>4. CASE cmd.name = "hipchat"
  <2>1. Changed(cmd, c) = c \cup (cmd.flags \ {<<"hipchat", "url">>})
    BY <1>4 DEF Changed, AddHipchat
  <2> QED BY <1>1, <2>1
<1>5. CASE cmd.name = "mattermost"
  <2> DEFINE username == <<"mattermost", "username">>
  <2>1. Changed(cmd, c) \in {(c \ {username}) \cup cmd.flags,
                             c \cup (cmd.flags \ {username})}
    BY <1>5 DEF Changed, AddMattermost
  <2>2. username[1] = "mattermost" /\ SectionOf(cmd) = "mattermost"
    BY <1>5 DEF SectionOf
  <2> HIDE DEF username
  <2> QED BY <1>1, <2>1, <2>2
<1>6. CASE cmd.name = "root"
  BY <1>6 DEF Changed
<1> QED BY <1>2, <1>3, <1>4, <1>5, <1>6, Flags

\* The file that a command loads holds a configuration.
LEMMA FileConf ==
    /\ \A f \in FileStates : f.conf \subseteq Fields
    /\ Absent \in FileStates /\ Empty \in FileStates /\ Broken \in FileStates
    /\ \A c \in SUBSET Fields : /\ Whole(c) \in FileStates /\ Whole(c).conf = c
                                /\ Whole(c).state = "whole"
    /\ Absent # Empty /\ Empty # Broken /\ Absent # Broken
    /\ Absent.conf = {} /\ Empty.conf = {}
    /\ \A c : Whole(c) # Absent /\ Whole(c) # Empty /\ Whole(c) # Broken
    /\ Broken.state = "broken" /\ Empty.state = "empty" /\ Absent.state = "absent"
<1>1. /\ Absent \in FileStates /\ Empty \in FileStates /\ Broken \in FileStates
      /\ \A c \in SUBSET Fields : Whole(c) \in FileStates
  BY DEF FileStates
<1>2. /\ Broken.state = "broken" /\ Empty.state = "empty" /\ Absent.state = "absent"
      /\ Absent.conf = {} /\ Empty.conf = {} /\ Broken.conf = {}
  BY DEF Absent, Empty, Broken
<1>3. \A c : Whole(c).conf = c /\ Whole(c).state = "whole"
  BY DEF Whole
<1>4. \A f \in FileStates : f.conf \subseteq Fields
  <2> SUFFICES ASSUME NEW f \in FileStates PROVE f.conf \subseteq Fields
    OBVIOUS
  <2>1. f \in {Absent, Empty, Broken} \/ \E c \in SUBSET Fields : f = Whole(c)
    BY DEF FileStates
  <2> QED BY <1>2, <1>3, <2>1
<1>5. Absent # Empty /\ Empty # Broken /\ Absent # Broken
  BY <1>2
<1>6. \A c : Whole(c) # Absent /\ Whole(c) # Empty /\ Whole(c) # Broken
  <2> TAKE c
  <2>1. Whole(c).state = "whole"
    BY <1>3
  <2> QED BY <1>2, <2>1
<1> QED BY <1>1, <1>2, <1>3, <1>4, <1>5, <1>6

\* A process that runs nothing.
LEMMA IdleIs ==
    /\ Idle \in Processes /\ Idle.at = "idle" /\ Idle.alone = FALSE
  BY FileConf DEF Idle, Processes, Points

\* The commands are commands.
LEMMA CommandIs ==
    Commands \cup {RootCommand} \subseteq AllCommands
  BY ConfigAssumption DEF RootCommand, AllCommands

\* The handler that Run selects.
LEMMA RunIs ==
    ASSUME NEW c
    PROVE  Run(c) \in Handlers \cup {"none", "fatal"}
  BY DEF Run, Select, Handlers

\* The environment of a configuration.
LEMMA EnvIs ==
    ASSUME Typed
    PROVE  /\ env.kw \subseteq Fields /\ env.bare \subseteq Fields
           /\ \A c \in SUBSET Fields : CheckMissingResourceEnvvars(c) \subseteq Fields
  BY ConfigAssumption, Sections DEF Typed, CheckMissingResourceEnvvars

-----------------------------------------------------------------------------
(* What each step does.                                                    *)

\* A step of process p that only moves it on.
LEMMA StepIs ==
    ASSUME Typed, NEW p \in Procs, NEW at \in Points, Step(p, at)
    PROVE  /\ proc' \in [Procs -> Processes]
           /\ proc'[p].at = at /\ proc'[p].cmd = proc[p].cmd
           /\ proc'[p].conf = proc[p].conf /\ proc'[p].base = proc[p].base
           /\ proc'[p].alone = proc[p].alone
           /\ \A q \in Procs : q # p => proc'[q] = proc[q]
           /\ env' = env /\ started' = started
           /\ commands' = commands /\ deaths' = deaths
<1>1. proc[p] \in Processes /\ proc \in [Procs -> Processes]
  BY DEF Typed
<1>2. proc' = [proc EXCEPT ![p] = [proc[p] EXCEPT !.at = at]]
  BY DEF Step
<1>3. [proc[p] EXCEPT !.at = at] \in Processes
  BY <1>1 DEF Processes
<1>4. proc'[p] = [proc[p] EXCEPT !.at = at]
  BY <1>1, <1>2
<1>5. proc' \in [Procs -> Processes] /\ \A q \in Procs : q # p => proc'[q] = proc[q]
  BY <1>1, <1>2, <1>3
<1>6. /\ proc'[p].at = at /\ proc'[p].cmd = proc[p].cmd
      /\ proc'[p].conf = proc[p].conf /\ proc'[p].base = proc[p].base
      /\ proc'[p].alone = proc[p].alone
  BY <1>1, <1>4 DEF Processes
<1> QED BY <1>5, <1>6 DEF Step

\* A process that ends is idle, and no other one notices.
LEMMA EndIs ==
    ASSUME Typed, NEW p \in Procs, proc' = [proc EXCEPT ![p] = Idle]
    PROVE  /\ proc' \in [Procs -> Processes]
           /\ proc'[p].at = "idle" /\ proc'[p].alone = FALSE
           /\ \A q \in Procs : q # p => proc'[q] = proc[q]
  BY IdleIs DEF Typed

\* A command begins at the stat, and those under way are no longer alone.
LEMMA BeginIs ==
    ASSUME Typed, NEW p \in Procs, NEW cmd \in Commands, Begin(p, cmd)
    PROVE  /\ proc' \in [Procs -> Processes]
           /\ proc[p].at = "idle"
           /\ proc'[p].at = "stat" /\ proc'[p].base = file
           /\ proc'[p].alone => \A r \in Procs : proc[r].at = "idle"
           /\ \A q \in Procs : q # p =>
                /\ proc'[q].at = proc[q].at /\ proc'[q].base = proc[q].base
                /\ proc'[q].alone = FALSE
           /\ env' = env /\ started' = started /\ file' = file
           /\ commands' = commands + 1 /\ commands < MaxCommands
           /\ deaths' = deaths
<1>1. proc \in [Procs -> Processes] /\ file \in FileStates
  BY DEF Typed
<1> DEFINE new == [at |-> "stat", cmd |-> cmd, conf |-> {}, base |-> file,
                   alone |-> \A r \in Procs : proc[r].at = "idle"]
<1>2. proc' = [q \in Procs |->
                 IF q # p THEN [proc[q] EXCEPT !.alone = FALSE] ELSE new]
  BY DEF Begin
<1>3. new \in Processes
  <2>1. (\A r \in Procs : proc[r].at = "idle") \in BOOLEAN
    OBVIOUS
  <2> QED BY <1>1, <2>1 DEF Processes, Points
<1>4. /\ new.at = "stat" /\ new.base = file
      /\ new.alone => \A r \in Procs : proc[r].at = "idle"
  OBVIOUS
<1> HIDE DEF new
<1>5. proc'[p] = new
  BY <1>2
<1>6. \A q \in Procs : q # p => proc'[q] = [proc[q] EXCEPT !.alone = FALSE]
  BY <1>2
<1>7. \A q \in Procs : q # p =>
        /\ proc'[q] \in Processes
        /\ proc'[q].at = proc[q].at /\ proc'[q].base = proc[q].base
        /\ proc'[q].alone = FALSE
  <2> SUFFICES ASSUME NEW q \in Procs, q # p
               PROVE  /\ proc'[q] \in Processes
                      /\ proc'[q].at = proc[q].at
                      /\ proc'[q].base = proc[q].base
                      /\ proc'[q].alone = FALSE
    OBVIOUS
  <2>1. proc[q] \in Processes /\ FALSE \in BOOLEAN
    BY <1>1
  <2>2. [proc[q] EXCEPT !.alone = FALSE] \in Processes
    BY <2>1 DEF Processes
  <2>3. /\ [proc[q] EXCEPT !.alone = FALSE].at = proc[q].at
        /\ [proc[q] EXCEPT !.alone = FALSE].base = proc[q].base
    BY <2>1 DEF Processes
  <2>4. [proc[q] EXCEPT !.alone = FALSE].alone = FALSE
    BY <2>1 DEF Processes
  <2> QED BY <1>6, <2>2, <2>3, <2>4
<1>8. proc' \in [Procs -> Processes]
  <2>1. \A q \in Procs : proc'[q] \in Processes
    BY <1>3, <1>5, <1>7
  <2> QED BY <1>2, <2>1
<1> QED BY <1>4, <1>5, <1>7, <1>8 DEF Begin

\* A command that loads the file changes its copy or ends.
LEMMA LoadIs ==
    ASSUME Typed, NEW p \in Procs, Load(p)
    PROVE  /\ proc' \in [Procs -> Processes]
           /\ proc[p].at = "read"
           /\ \/ /\ proc'[p].at = "truncate" /\ file # Broken
                 /\ proc[p].cmd.name # "root"
                 /\ proc'[p].conf = Changed(proc[p].cmd, file.conf)
                 /\ proc'[p].cmd = proc[p].cmd /\ proc'[p].base = proc[p].base
                 /\ proc'[p].alone = proc[p].alone
              \/ proc'[p].at = "idle" /\ proc'[p].alone = FALSE
           /\ \A q \in Procs : q # p => proc'[q] = proc[q]
           /\ \/ started' = started
              \/ started' = [conf |-> file.conf,
                             handler |-> Run(CheckMissingResourceEnvvars(file.conf))]
           /\ env' = env /\ file' = file
           /\ commands' = commands /\ deaths' = deaths
<1>1. /\ proc \in [Procs -> Processes] /\ proc[p] \in Processes
      /\ file \in FileStates
  BY DEF Typed
<1>2. Loaded(file) = file.conf /\ (Parses(file) <=> file # Broken)
  BY DEF Loaded, Parses
<1>3. \/ started' = started
      \/ started' = [conf |-> file.conf,
                     handler |-> Run(CheckMissingResourceEnvvars(file.conf))]
  BY <1>2 DEF Load
<1>4. CASE file # Broken /\ proc[p].cmd.name # "root"
  <2>1. PICK c : c = Changed(proc[p].cmd, file.conf)
    OBVIOUS
  <2>2. c \subseteq Fields
    <3>1. proc[p].cmd \in AllCommands
      BY <1>1, CommandIs DEF Processes
    <3>2. file.conf \in SUBSET Fields
      BY <1>1, FileConf
    <3> QED BY <2>1, <3>1, <3>2, ChangedSection
  <2> DEFINE new == [proc[p] EXCEPT !.at = "truncate", !.conf = c]
  <2>3. proc' = [proc EXCEPT ![p] = new]
    BY <1>1, <1>2, <1>4, <2>1 DEF Load
  <2>4. /\ new \in Processes /\ new.at = "truncate" /\ new.conf = c
        /\ new.cmd = proc[p].cmd /\ new.base = proc[p].base
        /\ new.alone = proc[p].alone
    BY <1>1, <2>2 DEF Processes, Points
  <2> HIDE DEF new
  <2>5. proc'[p] = new /\ proc' \in [Procs -> Processes]
    BY <1>1, <2>3, <2>4
  <2>6. \A q \in Procs : q # p => proc'[q] = proc[q]
    BY <1>1, <2>3
  <2> QED BY <1>3, <1>4, <2>1, <2>4, <2>5, <2>6 DEF Load
<1>5. CASE ~(file # Broken /\ proc[p].cmd.name # "root")
  <2>1. proc' = [proc EXCEPT ![p] = Idle]
    BY <1>2, <1>5 DEF Load
  <2> QED BY <1>3, <2>1, EndIs DEF Load
<1> QED BY <1>4, <1>5

-----------------------------------------------------------------------------
(* Types, and the file that stays.                                         *)

\* The inductive invariant.
Inv == Typed /\ FoundInv /\ CreateInv

\* No command runs at first.
LEMMA InitInv == Init => Inv
<1> SUFFICES ASSUME Init PROVE Inv
  OBVIOUS
<1>1. Typed
  <2>1. file \in FileStates /\ env \in Environments
    BY ConfigAssumption DEF Init
  <2>2. proc \in [Procs -> Processes]
    BY IdleIs DEF Init
  <2>3. commands \in 0..MaxCommands /\ deaths \in 0..MaxDeaths
    BY ConfigAssumption DEF Init
  <2>4. started \in [conf : SUBSET Fields, handler : Handlers \cup {"none", "fatal"}]
    BY DEF Init, NotStarted
  <2> QED BY <2>1, <2>2, <2>3, <2>4 DEF Typed
<1>2. \A p \in Procs : proc[p].at = "idle"
  BY IdleIs DEF Init
<1> QED BY <1>1, <1>2 DEF Inv, FoundInv, CreateInv

\* A command begins.
LEMMA BeginInv ==
    ASSUME Inv, NEW p \in Procs, NEW cmd \in Commands, Begin(p, cmd)
    PROVE  Inv'
<1> USE DEF Inv
<1>1. Typed'
  <2>1. commands' \in 0..MaxCommands
    <3>1. commands' = commands + 1 /\ commands < MaxCommands
      BY DEF Begin
    <3> QED BY <3>1, ConfigAssumption DEF Typed
  <2> QED BY <2>1, BeginIs DEF Typed
<1>2. FoundInv'
  BY BeginIs DEF FoundInv
<1>3. CreateInv'
  BY BeginIs DEF CreateInv
<1> QED BY <1>1, <1>2, <1>3

\* A command looks for the file, and goes on to create or to read it.
LEMMA StatInv ==
    ASSUME Inv, NEW p \in Procs, Stat(p)
    PROVE  Inv'
<1> USE DEF Inv
<1>1. PICK at : at = (IF file = Absent THEN "create" ELSE "read")
  OBVIOUS
<1>2. at \in Points /\ Step(p, at) /\ file' = file /\ proc[p].at = "stat"
  BY <1>1 DEF Stat, Points
<1>3. Typed'
  BY <1>2, StepIs DEF Typed
<1>4. FoundInv'
  BY <1>1, <1>2, StepIs DEF FoundInv
<1>5. CreateInv'
  BY <1>1, <1>2, StepIs DEF CreateInv
<1> QED BY <1>3, <1>4, <1>5

\* A command creates the file it did not find.
LEMMA CreateStepInv ==
    ASSUME Inv, NEW p \in Procs, Create(p)
    PROVE  Inv'
<1> USE DEF Inv
<1>1. "read" \in Points /\ Step(p, "read") /\ file' = Empty /\ proc[p].at = "create"
  BY DEF Create, Points
<1>2. Typed'
  BY <1>1, StepIs, FileConf DEF Typed
<1>3. FoundInv' /\ CreateInv'
  BY <1>1, StepIs, FileConf DEF FoundInv, CreateInv
<1> QED BY <1>2, <1>3

\* A command reads the file and changes what it read, or the root command
\* starts.
LEMMA LoadInv ==
    ASSUME Inv, NEW p \in Procs, Load(p)
    PROVE  Inv'
<1> USE DEF Inv
<1>1. Typed'
  <2>1. started' \in [conf : SUBSET Fields, handler : Handlers \cup {"none", "fatal"}]
    <3>1. file.conf \in SUBSET Fields
      BY FileConf DEF Typed
    <3>2. Run(CheckMissingResourceEnvvars(file.conf))
            \in Handlers \cup {"none", "fatal"}
      BY RunIs
    <3>3. \/ started' = started
          \/ started' = [conf |-> file.conf,
                         handler |-> Run(CheckMissingResourceEnvvars(file.conf))]
      BY LoadIs
    <3> QED BY <3>1, <3>2, <3>3 DEF Typed
  <2> QED BY <2>1, LoadIs DEF Typed
<1>2. FoundInv'
  BY LoadIs DEF FoundInv
<1>3. CreateInv'
  BY LoadIs DEF CreateInv
<1> QED BY <1>1, <1>2, <1>3

\* A command empties the file before it writes.
LEMMA TruncateInv ==
    ASSUME Inv, NEW p \in Procs, Truncate(p)
    PROVE  Inv'
<1> USE DEF Inv
<1>1. /\ "write" \in Points /\ Step(p, "write") /\ file' = Empty
      /\ proc[p].at = "truncate"
  BY DEF Truncate, Points
<1>2. Typed'
  BY <1>1, StepIs, FileConf DEF Typed
<1>3. FoundInv' /\ CreateInv'
  BY <1>1, StepIs, FileConf DEF FoundInv, CreateInv
<1> QED BY <1>2, <1>3

\* A command writes a whole file, or a broken one over what another wrote.
LEMMA WriteInv ==
    ASSUME Inv, NEW p \in Procs, Write(p)
    PROVE  Inv'
<1> USE DEF Inv
<1>1. proc' = [proc EXCEPT ![p] = Idle]
  BY DEF Write
<1>2. file' \in FileStates /\ file' # Absent
  <2>1. proc[p].conf \in SUBSET Fields
    BY DEF Typed, Processes
  <2> QED BY <2>1, FileConf DEF Write
<1>3. Typed'
  BY <1>1, <1>2, EndIs DEF Typed, Write
<1>4. FoundInv' /\ CreateInv'
  BY <1>1, <1>2, EndIs DEF FoundInv, CreateInv
<1> QED BY <1>3, <1>4

\* A command dies and leaves the file as it is.
LEMMA DieInv ==
    ASSUME Inv, NEW p \in Procs, Die(p)
    PROVE  Inv'
<1> USE DEF Inv
<1>1. proc' = [proc EXCEPT ![p] = Idle] /\ file' = file
  BY DEF Die
<1>2. Typed'
  <2>1. deaths' \in 0..MaxDeaths
    <3>1. deaths' = deaths + 1 /\ deaths < MaxDeaths
      BY DEF Die
    <3> QED BY <3>1, ConfigAssumption DEF Typed
  <2> QED BY <1>1, <2>1, EndIs DEF Typed, Die
<1>3. FoundInv' /\ CreateInv'
  BY <1>1, EndIs DEF FoundInv, CreateInv
<1> QED BY <1>2, <1>3

\* Inv holds throughout.
LEMMA Invariant == Spec => []Inv
<1>1. Inv /\ [Next]_vars => Inv'
  <2> SUFFICES ASSUME Inv, [Next]_vars PROVE Inv'
    OBVIOUS
  <2>1. CASE UNCHANGED vars
    BY <2>1 DEF vars, Inv, Typed, FoundInv, CreateInv
  <2>2. CASE Next
    BY <2>2, BeginInv, StatInv, CreateStepInv, LoadInv, TruncateInv, WriteInv,
       DieInv DEF Next
  <2> QED BY <2>1, <2>2
<1> QED BY <1>1, InitInv, PTL DEF Spec

\* Every variable of the configuration model keeps its type: a command loads
\* and writes fields of the configuration only, at every point of any overlap
\* of the commands.
THEOREM TypeCorrect == Spec => []TypeOK
<1>1. Inv => TypeOK
  BY DEF Inv, Typed, FoundInv, TypeOK, Processes, Points
<1> QED BY <1>1, Invariant, PTL

-----------------------------------------------------------------------------
(* Commands that overlap.                                                  *)

\* A step that leaves a file with a text, or a process about to write one.
LEMMA KeptStep ==
    ASSUME Inv, Next, Kept
    PROVE  \/ Kept'
           \/ deaths' > deaths
           \/ \E p \in Procs : proc[p].at = "create" /\ proc[p].base = Absent
<1> USE DEF Inv
<1>1. ASSUME NEW p \in Procs, NEW cmd \in Commands, Begin(p, cmd) PROVE Kept'
  BY <1>1, BeginIs DEF Kept
<1>2. ASSUME NEW p \in Procs, Stat(p) PROVE Kept'
  <2>1. PICK at \in {"create", "read"} : Step(p, at)
    BY <1>2 DEF Stat
  <2>2. at \in Points /\ file' = file /\ proc[p].at = "stat"
    BY <1>2 DEF Stat, Points
  <2> QED BY <2>1, <2>2, StepIs DEF Kept
<1>3. ASSUME NEW p \in Procs, Create(p)
      PROVE  proc[p].at = "create" /\ proc[p].base = Absent
  BY <1>3 DEF Create, CreateInv
<1>4. ASSUME NEW p \in Procs, Load(p) PROVE Kept'
  BY <1>4, LoadIs DEF Kept
<1>5. ASSUME NEW p \in Procs, Truncate(p) PROVE Kept'
  <2>1. "write" \in Points /\ Step(p, "write")
    BY <1>5 DEF Truncate, Points
  <2> QED BY <2>1, StepIs DEF Kept
<1>6. ASSUME NEW p \in Procs, Write(p) PROVE Kept'
  <2>1. file' = Broken \/ file' = Whole(proc[p].conf)
    BY <1>6 DEF Write
  <2>2. Whole(proc[p].conf).state = "whole"
    BY DEF Whole
  <2> QED BY <2>1, <2>2, FileConf DEF Kept
<1>7. ASSUME NEW p \in Procs, Die(p) PROVE deaths' > deaths
  <2>1. deaths' = deaths + 1 /\ deaths \in Nat
    BY <1>7, ConfigAssumption DEF Die, Typed
  <2> QED BY <2>1
<1> QED BY <1>1, <1>2, <1>3, <1>4, <1>5, <1>6, <1>7 DEF Next

\* However commands overlap, a configuration whose text is in the file is in
\* it or about to be written until a process dies or one that found no file
\* creates it (ioutil.WriteFile truncates and then writes, config.go).
THEOREM OverlapKeepsConfig == Spec => ConfigSurvives
<1>1. Inv /\ [Next]_vars =>
        [Kept /\ ~Kept' =>
            \/ deaths' > deaths
            \/ \E p \in Procs : proc[p].at = "create" /\ proc[p].base = Absent]_vars
  BY KeptStep
<1> QED BY <1>1, Invariant, PTL DEF Spec, ConfigSurvives

\* No step repairs a broken file.
LEMMA UnrepairedStep ==
    ASSUME Inv, Next, Unrepaired
    PROVE  Unrepaired'
<1> USE DEF Inv
<1>0. file = Broken /\ \A q \in Procs : proc[q].at \in {"idle", "stat", "read"}
  BY DEF Unrepaired
<1>1. ASSUME NEW p \in Procs, NEW cmd \in Commands, Begin(p, cmd)
      PROVE  Unrepaired'
  BY <1>0, <1>1, BeginIs DEF Unrepaired
<1>2. ASSUME NEW p \in Procs, Stat(p) PROVE Unrepaired'
  <2>1. "read" \in Points /\ Step(p, "read") /\ file' = file
    BY <1>0, <1>2, FileConf DEF Stat, Points
  <2> QED BY <1>0, <2>1, StepIs DEF Unrepaired
<1>3. ASSUME NEW p \in Procs, Create(p) \/ Truncate(p) \/ Write(p) PROVE FALSE
  BY <1>0, <1>3 DEF Create, Truncate, Write
<1>4. ASSUME NEW p \in Procs, Load(p) PROVE Unrepaired'
  BY <1>0, <1>4, LoadIs DEF Unrepaired
<1>5. ASSUME NEW p \in Procs, Die(p) PROVE Unrepaired'
  BY <1>0, <1>5, EndIs DEF Unrepaired, Die
<1> QED BY <1>1, <1>2, <1>3, <1>4, <1>5 DEF Next

\* Once a file is broken and no process holds a copy from before, every later
\* command fails on it: the error of yaml.Unmarshal in Load is final.
THEOREM BrokenStays == Spec => BrokenForGood
<1>1. Inv /\ [Next]_vars => [Unrepaired => Unrepaired']_vars
  BY UnrepairedStep
<1> QED BY <1>1, Invariant, PTL DEF Spec, BrokenForGood

-----------------------------------------------------------------------------
(* A command that runs alone.                                              *)

\* The file is what process p found, or what createIfNotExist made of it.
Found(p) ==
    file = proc[p].base \/ (proc[p].base = Absent /\ file = Empty)

\* The copy of process p is its change of what it found.
Computed(p) ==
    /\ proc[p].base # Broken
    /\ proc[p].cmd.name # "root"
    /\ proc[p].conf = Changed(proc[p].cmd, proc[p].base.conf)

\* While p runs alone no other process runs, and the file is known at every
\* step from the file p began with.
Progress(p) ==
    /\ proc[p].at # "idle"
    /\ \A q \in Procs \ {p} : proc[q].at = "idle"
    /\ proc[p].at \in {"stat", "create"} => file = proc[p].base
    /\ proc[p].at \in {"read", "truncate"} => Found(p)
    /\ proc[p].at \in {"truncate", "write"} => Computed(p)
    /\ proc[p].at = "write" => file = Empty

\* A command that has run alone so far is where its own steps took it.
AloneInv == \A p \in Procs : proc[p].alone => Progress(p)

\* If another process takes a step, p was not alone.
LEMMA OtherIdle ==
    ASSUME AloneInv, NEW p \in Procs, proc[p].at # "idle", NEW q \in Procs, q # p
    PROVE  ~proc[q].alone
  BY DEF AloneInv, Progress

\* A command that begins alone has the whole file before it.
LEMMA BeginAlone ==
    ASSUME Inv, AloneInv, NEW p \in Procs, NEW cmd \in Commands, Begin(p, cmd)
    PROVE  AloneInv'
<1> USE DEF Inv
<1> SUFFICES ASSUME NEW q \in Procs, proc'[q].alone PROVE Progress(q)'
  BY DEF AloneInv
<1>1. q = p
  BY BeginIs
<1>2. proc'[p].at = "stat" /\ file' = proc'[p].base
  BY BeginIs
<1>3. \A r \in Procs \ {p} : proc'[r].at = "idle"
  BY <1>1, BeginIs
<1> QED BY <1>1, <1>2, <1>3 DEF Progress

\* The stat of a lone command sees the file it began with.
LEMMA StatAlone ==
    ASSUME Inv, AloneInv, NEW p \in Procs, Stat(p)
    PROVE  AloneInv'
<1> USE DEF Inv
<1> SUFFICES ASSUME NEW q \in Procs, proc'[q].alone PROVE Progress(q)'
  BY DEF AloneInv
<1>1. PICK at \in {"create", "read"} : Step(p, at)
  BY DEF Stat
<1>2. at \in Points /\ file' = file /\ proc[p].at = "stat"
  BY <1>1 DEF Stat, Points
<1>3. /\ proc'[p].at = at /\ proc'[p].base = proc[p].base
      /\ proc'[p].alone = proc[p].alone
      /\ \A r \in Procs : r # p => proc'[r] = proc[r]
  BY <1>1, <1>2, StepIs
<1>4. q = p
  BY <1>2, <1>3, OtherIdle
<1>5. Progress(p)
  BY <1>3, <1>4 DEF AloneInv
<1> QED BY <1>2, <1>3, <1>4, <1>5 DEF Progress, Found

\* A lone command creates the file only where there was none.
LEMMA CreateAlone ==
    ASSUME Inv, AloneInv, NEW p \in Procs, Create(p)
    PROVE  AloneInv'
<1> USE DEF Inv
<1> SUFFICES ASSUME NEW q \in Procs, proc'[q].alone PROVE Progress(q)'
  BY DEF AloneInv
<1>1. "read" \in Points /\ Step(p, "read") /\ file' = Empty /\ proc[p].at = "create"
  BY DEF Create, Points
<1>2. /\ proc'[p].at = "read" /\ proc'[p].base = proc[p].base
      /\ proc'[p].alone = proc[p].alone
      /\ \A r \in Procs : r # p => proc'[r] = proc[r]
  BY <1>1, StepIs
<1>3. q = p
  BY <1>1, <1>2, OtherIdle
<1>4. Progress(p) /\ proc[p].base = Absent
  BY <1>1, <1>2, <1>3 DEF AloneInv, CreateInv
<1> QED BY <1>1, <1>2, <1>3, <1>4 DEF Progress, Found

\* A lone command reads what it began with.
LEMMA LoadAlone ==
    ASSUME Inv, AloneInv, NEW p \in Procs, Load(p)
    PROVE  AloneInv'
<1> USE DEF Inv
<1> SUFFICES ASSUME NEW q \in Procs, proc'[q].alone PROVE Progress(q)'
  BY DEF AloneInv
<1>1. proc[p].at = "read" /\ file' = file /\ \A r \in Procs : r # p => proc'[r] = proc[r]
  BY LoadIs
<1>2. q = p
  BY <1>1, OtherIdle
<1>3. /\ proc'[p].at = "truncate" /\ file # Broken
      /\ proc[p].cmd.name # "root"
      /\ proc'[p].conf = Changed(proc[p].cmd, file.conf)
      /\ proc'[p].cmd = proc[p].cmd /\ proc'[p].base = proc[p].base
      /\ proc'[p].alone = proc[p].alone
  BY <1>2, LoadIs
<1>4. Progress(p)
  BY <1>2, <1>3 DEF AloneInv
<1>5. Found(p)
  BY <1>1, <1>4 DEF Progress
<1>6. file.conf = proc[p].base.conf /\ proc[p].base # Broken
  BY <1>3, <1>5, FileConf DEF Found
<1>7. Computed(p)'
  BY <1>3, <1>6 DEF Computed
<1>8. Found(p)'
  BY <1>1, <1>3, <1>5 DEF Found
<1>9. \A r \in Procs \ {p} : proc'[r].at = "idle"
  BY <1>1, <1>4 DEF Progress
<1> QED BY <1>2, <1>3, <1>7, <1>8, <1>9 DEF Progress

\* A lone command empties the file itself.
LEMMA TruncateAlone ==
    ASSUME Inv, AloneInv, NEW p \in Procs, Truncate(p)
    PROVE  AloneInv'
<1> USE DEF Inv
<1> SUFFICES ASSUME NEW q \in Procs, proc'[q].alone PROVE Progress(q)'
  BY DEF AloneInv
<1>1. /\ "write" \in Points /\ Step(p, "write") /\ file' = Empty
      /\ proc[p].at = "truncate"
  BY DEF Truncate, Points
<1>2. /\ proc'[p].at = "write" /\ proc'[p].base = proc[p].base
      /\ proc'[p].cmd = proc[p].cmd /\ proc'[p].conf = proc[p].conf
      /\ proc'[p].alone = proc[p].alone
      /\ \A r \in Procs : r # p => proc'[r] = proc[r]
  BY <1>1, StepIs
<1>3. q = p
  BY <1>1, <1>2, OtherIdle
<1>4. Progress(p)
  BY <1>2, <1>3 DEF AloneInv
<1>5. Computed(p)'
  BY <1>1, <1>2, <1>4 DEF Progress, Computed
<1> QED BY <1>1, <1>2, <1>3, <1>4, <1>5 DEF Progress

\* A process that ends is alone no longer.
LEMMA EndAlone ==
    ASSUME Inv, AloneInv, NEW p \in Procs, proc[p].at # "idle",
           proc' = [proc EXCEPT ![p] = Idle]
    PROVE  AloneInv'
<1>1. \A q \in Procs : ~proc'[q].alone
  BY EndIs, OtherIdle DEF Inv
<1> QED BY <1>1 DEF AloneInv

\* AloneInv holds throughout.
LEMMA AloneInvariant == Spec => []AloneInv
<1>1. Init => AloneInv
  BY IdleIs DEF Init, AloneInv
<1>2. Inv /\ AloneInv /\ [Next]_vars => AloneInv'
  <2> SUFFICES ASSUME Inv, AloneInv, [Next]_vars PROVE AloneInv'
    OBVIOUS
  <2>1. CASE UNCHANGED vars
    BY <2>1 DEF vars, AloneInv, Progress, Found, Computed
  <2>2. ASSUME NEW p \in Procs, Write(p) \/ Die(p) PROVE AloneInv'
    BY <2>2, EndAlone DEF Write, Die
  <2>3. CASE Next
    BY <2>2, <2>3, BeginAlone, StatAlone, CreateAlone, LoadAlone, TruncateAlone
       DEF Next
  <2> QED BY <2>1, <2>3
<1> QED BY <1>1, <1>2, Invariant, PTL DEF Spec

\* What the file is when a process that ran alone ends.
Left(p) ==
    \/ /\ file'.state = "whole" /\ proc[p].base # Broken
       /\ \A f \in Fields : f[1] # SectionOf(proc[p].cmd) =>
            (f \in file'.conf <=> f \in proc[p].base.conf)
    \/ file' = proc[p].base
    \/ file' = Empty /\ (deaths' > deaths \/ proc[p].base = Absent)

\* A lone command that ends leaves the other sections, or the file it found,
\* or an empty file if it died or there was none.
LEMMA AloneEnds ==
    ASSUME Inv, AloneInv, Next, NEW p \in Procs, Ends(p), proc[p].alone
    PROVE  Left(p)
<1> USE DEF Inv
<1>0. /\ proc[p].at # "idle" /\ proc'[p].at = "idle" /\ Progress(p)
      /\ proc[p] \in Processes /\ file \in FileStates
  BY DEF Ends, AloneInv, Typed
<1>1. ASSUME NEW q \in Procs, NEW cmd \in Commands, Begin(q, cmd) PROVE FALSE
  BY <1>0, <1>1, BeginIs
<1>2. ASSUME NEW q \in Procs, NEW at \in Points \ {"idle"}, Step(q, at) PROVE FALSE
  BY <1>0, <1>2, StepIs
<1>3. ASSUME NEW q \in Procs, Stat(q) \/ Create(q) \/ Truncate(q) PROVE FALSE
  BY <1>2, <1>3 DEF Stat, Create, Truncate, Points
<1>4. ASSUME NEW q \in Procs, proc[q].at # "idle" PROVE q = p
  BY <1>0, <1>4 DEF Progress
<1>5. ASSUME NEW q \in Procs, Load(q) PROVE Left(p)
  <2>1. q = p /\ file' = file /\ proc[p].at = "read"
    BY <1>4, <1>5, LoadIs
  <2>2. Found(p)
    BY <1>0, <2>1 DEF Progress
  <2> QED BY <2>1, <2>2 DEF Found, Left
<1>6. ASSUME NEW q \in Procs, Write(q) PROVE Left(p)
  <2>1. q = p /\ proc[p].at = "write"
    BY <1>4, <1>6 DEF Write
  <2>2. Computed(p) /\ file = Empty
    BY <1>0, <2>1 DEF Progress
  <2>3. file' = Whole(proc[p].conf)
    BY <1>6, <2>1, <2>2 DEF Write
  <2>4. /\ proc[p].cmd \in AllCommands /\ proc[p].base.conf \in SUBSET Fields
        /\ proc[p].conf \in SUBSET Fields
    BY <1>0, CommandIs, FileConf DEF Processes
  <2>5. file'.state = "whole" /\ file'.conf = proc[p].conf
    BY <2>3, <2>4, FileConf
  <2>6. \A f \in Fields : f[1] # SectionOf(proc[p].cmd) =>
          (f \in proc[p].conf <=> f \in proc[p].base.conf)
    BY <2>2, <2>4, ChangedSection DEF Computed
  <2> QED BY <2>2, <2>5, <2>6 DEF Left, Computed
<1>7. ASSUME NEW q \in Procs, Die(q) PROVE Left(p)
  <2>1. q = p /\ file' = file
    BY <1>4, <1>7 DEF Die
  <2>2. deaths' > deaths
    <3>1. deaths' = deaths + 1 /\ deaths \in Nat
      BY <1>7, ConfigAssumption DEF Die, Typed
    <3> QED BY <3>1
  <2>3. file = proc[p].base \/ file = Empty
    BY <1>0 DEF Progress, Found, Processes, Points
  <2> QED BY <2>1, <2>2, <2>3 DEF Left
<1> QED BY <1>1, <1>3, <1>5, <1>6, <1>7 DEF Next

\* A command that runs alone changes its own section of the file and nothing
\* else (the Write of config.go saves the whole of what Load returned); one
\* that fails leaves the file as it was or empty.
THEOREM AloneIsSafe == Spec => AloneLosesNothing
<1>1. Inv /\ AloneInv /\ [Next]_vars =>
        [\A p \in Procs : Ends(p) /\ proc[p].alone => Left(p)]_vars
  BY AloneEnds
<1>2. [\A p \in Procs : Ends(p) /\ proc[p].alone => Left(p)]_vars =>
        [\A p \in Procs : Ends(p) /\ proc[p].alone =>
            \/ /\ file'.state = "whole" /\ proc[p].base # Broken
               /\ \A f \in Fields : f[1] # SectionOf(proc[p].cmd) =>
                    (f \in file'.conf <=> f \in proc[p].base.conf)
            \/ file' = proc[p].base
            \/ file' = Empty /\ (deaths' > deaths \/ proc[p].base = Absent)]_vars
  BY DEF Left
<1> QED BY <1>1, <1>2, Invariant, AloneInvariant, PTL DEF Spec, AloneLosesNothing

-----------------------------------------------------------------------------
(* The handler the root command starts.                                    *)

\* The handler is the one Run makes of the file that was loaded.
StartedInv ==
    started.handler # "none" =>
        started.handler = Run(CheckMissingResourceEnvvars(started.conf))

\* The root command starts the handler of the configuration it read.
LEMMA StartedStep ==
    ASSUME Inv, StartedInv, Next
    PROVE  StartedInv'
<1> USE DEF Inv
<1>1. ASSUME started' = started, env' = env PROVE StartedInv'
  BY <1>1 DEF StartedInv, CheckMissingResourceEnvvars, Run, HandlerInit,
     SlackInit, HipchatInit, MattermostInit, FlockInit, WebhookInit
<1>2. ASSUME NEW p \in Procs, Load(p) PROVE StartedInv'
  <2>1. CASE started' = started
    BY <1>1, <1>2, <2>1, LoadIs
  <2>2. CASE started' = [conf |-> file.conf,
                         handler |-> Run(CheckMissingResourceEnvvars(file.conf))]
    <3>1. env' = env
      BY <1>2, LoadIs
    <3>2. /\ started'.conf = file.conf
          /\ started'.handler = Run(CheckMissingResourceEnvvars(file.conf))
      BY <2>2
    <3> QED BY <3>1, <3>2 DEF StartedInv, CheckMissingResourceEnvvars, Run,
               HandlerInit, SlackInit, HipchatInit, MattermostInit, FlockInit,
               WebhookInit
  <2> QED BY <1>2, <2>1, <2>2, LoadIs
<1>3. ASSUME NEW p \in Procs,
             \/ \E cmd \in Commands : Begin(p, cmd)
             \/ Stat(p) \/ Create(p) \/ Truncate(p) \/ Write(p)
             \/ Die(p)
      PROVE  started' = started /\ env' = env
  BY <1>3 DEF Begin, Stat, Create, Truncate, Write, Die, Step
<1> QED BY <1>1, <1>2, <1>3 DEF Next

\* Fields of one handler select that handler and no other.
LEMMA SelectIs ==
    ASSUME NEW h \in DOMAIN Needs, NEW c, Needs[h] \subseteq c,
           \A f \in c : f[1] \in {h, "resource"}
    PROVE  Select(c) = h
<1> DEFINE Has(name, fields) == c \cap Section(name, fields) # {}
<1>1. ASSUME NEW n \in {"slack", "hipchat", "mattermost", "flock", "webhook"},
             NEW F, n # h
      PROVE  ~Has(n, F)
  <2> SUFFICES ASSUME NEW f \in c, f \in Section(n, F) PROVE FALSE
    OBVIOUS
  <2>1. f[1] = n
    BY DEF Section
  <2> QED BY <1>1, <2>1
<1>2. CASE h = "slack"
  <2>1. <<"slack", "token">> \in c
    BY <1>2 DEF Needs, Slack, Section
  <2>2. Has("slack", {"token", "channel"})
    BY <2>1 DEF Section
  <2> QED BY <1>2, <2>2 DEF Select
<1>3. CASE h = "hipchat"
  <2>1. <<"hipchat", "token">> \in c
    BY <1>3 DEF Needs, Section
  <2>2. Has("hipchat", {"token", "room"})
    BY <2>1 DEF Section
  <2> QED BY <1>1, <1>3, <2>2 DEF Select
<1>4. CASE h = "mattermost"
  <2>1. <<"mattermost", "url">> \in c
    BY <1>4 DEF Needs, Mattermost, Section
  <2>2. Has("mattermost", {"channel", "url"})
    BY <2>1 DEF Section
  <2> QED BY <1>1, <1>4, <2>2 DEF Select
<1>5. CASE h = "flock"
  <2>1. <<"flock", "url">> \in c
    BY <1>5 DEF Needs, Flock, Section
  <2>2. Has("flock", {"url"})
    BY <2>1 DEF Section
  <2> QED BY <1>1, <1>5, <2>2 DEF Select
<1>6. CASE h = "webhook"
  <2>1. <<"webhook", "url">> \in c
    BY <1>6 DEF Needs, Webhook, Section
  <2>2. Has("webhook", {"url"})
    BY <2>1 DEF Section
  <2> QED BY <1>1, <1>6, <2>2 DEF Select
<1> QED BY <1>2, <1>3, <1>4, <1>5, <1>6 DEF Needs

\* A handler that has all it needs initialises.
LEMMA HandlerInitIs ==
    ASSUME NEW h \in DOMAIN Needs, NEW c, Needs[h] \subseteq c
    PROVE  HandlerInit(h, c)
<1>1. CASE h = "slack"
  BY <1>1 DEF Needs, HandlerInit, SlackInit, checkMissingSlackVars
<1>2. CASE h = "hipchat"
  BY <1>2 DEF Needs, HandlerInit, HipchatInit, checkMissingHipchatVars
<1>3. CASE h = "mattermost"
  BY <1>3 DEF Needs, HandlerInit, MattermostInit, checkMissingMattermostVars
<1>4. CASE h = "flock"
  BY <1>4 DEF Needs, HandlerInit, FlockInit, checkMissingFlockVars
<1>5. CASE h = "webhook"
  BY <1>5 DEF Needs, HandlerInit, WebhookInit, checkMissingWebhookVars
<1> QED BY <1>1, <1>2, <1>3, <1>4, <1>5 DEF Needs

\* A file with the fields of one handler only, and all it needs, starts that
\* handler, for every set of resource flags, unless SLACK_TOKEN or
\* SLACK_CHANNEL is set (the switch of Run, run.go, and Init of the handlers).
THEOREM HandlerRuns == Spec => []ConfiguredHandlerRuns
<1>1. Init => StartedInv
  BY DEF Init, NotStarted, StartedInv
<1>2. Inv /\ StartedInv /\ [Next]_vars => StartedInv'
  <2>1. ASSUME StartedInv, UNCHANGED vars PROVE StartedInv'
    BY <2>1 DEF vars, StartedInv, CheckMissingResourceEnvvars, Run, HandlerInit,
       SlackInit, HipchatInit, MattermostInit, FlockInit, WebhookInit
  <2> QED BY <2>1, StartedStep
<1>3. Inv /\ StartedInv => ConfiguredHandlerRuns
  <2> SUFFICES ASSUME Inv, StartedInv, NEW h \in DOMAIN Needs,
                      started.handler # "none", env.bare = {},
                      Needs[h] \subseteq started.conf,
                      \A f \in started.conf : f[1] \in {h, "resource"}
               PROVE  started.handler = h
    BY DEF ConfiguredHandlerRuns
  <2>1. PICK c : c = CheckMissingResourceEnvvars(started.conf)
    OBVIOUS
  <2>2. c = started.conf \cup (env.kw \cap Resource)
    BY <2>1 DEF CheckMissingResourceEnvvars
  <2>3. Needs[h] \subseteq c /\ \A f \in c : f[1] \in {h, "resource"}
    BY <2>2, Sections
  <2>4. Select(c) = h /\ HandlerInit(h, c)
    BY <2>3, SelectIs, HandlerInitIs
  <2> QED BY <2>1, <2>4 DEF StartedInv, Run
<1> QED BY <1>1, <1>2, <1>3, Invariant, PTL DEF Spec
=============================================================================
