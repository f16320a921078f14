------------------------------- MODULE MCConfig -------------------------------
(* An instance of Config for TLC.                                          *)
EXTENDS Config, TLC

Given ==
    {[name |-> "slack", flags |-> {f}] : f \in Slack}
    \cup {[name |-> "hipchat", flags |-> Hipchat]}
    \cup {[name |-> "mattermost", flags |-> fs] :
            fs \in {Mattermost, {<<"mattermost", "url">>}}}
    \cup {[name |-> "flock", flags |-> Flock],
          [name |-> "webhook", flags |-> Webhook]}
    \cup {[name |-> op, flags |-> Resource] : op \in {"add", "remove"}}
    \cup {RootCommand}

AtFirst == {Absent, Whole(Slack \cup Resource), Whole(Mattermost)}

Settings ==
    {[kw |-> {}, bare |-> {}], [kw |-> Slack, bare |-> {}],
     [kw |-> Fields, bare |-> Slack]}

\* Processes are interchangeable.
ProcSymmetry == Permutations(Procs)
=============================================================================
