--------------------------- MODULE MCConfigStore ---------------------------
(* ConfigStore on small instances.                                          *)
EXTENDS ConfigStore, TLC

\* A topic for each severity, and a second one for the critical alerts.
MCTopic == {[name |-> "warn", token |-> TRUE, handles |-> {"warning"}],
            [name |-> "crit", token |-> TRUE, handles |-> {"critical"}],
            [name |-> "ops", token |-> TRUE, handles |-> {"critical"}],
            [name |-> "bare", token |-> FALSE, handles |-> {"warning"}]}

\* Two topics for one of the severities; warnings without a token.
Named(names) == {t \in MCTopic : t.name \in names}
MCTopicSet == [one |-> Named({"warn", "crit"}), two |-> Named({"warn", "crit", "ops"}),
               bare |-> Named({"crit", "bare"})]

Page == [id |-> "page", enabled |-> TRUE, priority |-> 2, severities |-> {"critical"},
         pattern |-> {}, sources |-> {}, events |-> {}, retry |-> 1, expire |-> 2,
         attempts |-> 2, lease |-> 3, fallback |-> FALSE, after |-> 1]
\* Any severity of one event; what a pattern matches, with less priority.
Disk == [Page EXCEPT !.id = "disk", !.severities = {}, !.events = {"disk"}, !.lease = 4, !.fallback = TRUE]
Rest == [Page EXCEPT !.id = "rest", !.priority = 1, !.severities = {}, !.pattern = {"critical"},
                     !.lease = 4, !.fallback = TRUE]
Idle == [Rest EXCEPT !.enabled = FALSE, !.lease = 1]

MCProfile == {Page, Disk, Rest, Idle}

\* Off; critical alerts alone; every event with a fallback.
Off == [on |-> FALSE, alone |-> FALSE, excluded |-> {}, fallback |-> "page", profiles |-> <<Page>>]
Alone == [Off EXCEPT !.on = TRUE, !.alone = TRUE]
Full == [on |-> TRUE, alone |-> FALSE, excluded |-> {"batch"}, fallback |-> "rest",
         profiles |-> <<Rest, Disk>>]
\* The fallback profile of an enabled configuration is disabled.
Lost == [Alone EXCEPT !.fallback = "rest", !.profiles = <<Page, Idle>>]

MCPolicy == [off |-> Off, alone |-> Alone, full |-> Full, lost |-> Lost]

MCInitial == [timeout |-> 1, fallback |-> "none", emergency |-> "alone",
              delivery |-> 0, inhibitions |-> 0, schedules |-> 0, display |-> 0,
              history |-> CHOOSE s \in Store : TRUE, sources |-> Source, secrets |-> Source,
              dashboards |-> 0, topics |-> "one", tuned |-> {}, settings |-> 0,
              tokens |-> Token, passkeys |-> Passkey, basic |-> 1, factor |-> 0]

\* An export of a deployment with more of everything, and one whose fallback
\* profile was disabled.
MCBundle == {[MCInitial EXCEPT !.fallback = "ready", !.emergency = "full", !.topics = "two",
                               !.timeout = 2, !.sources = {}, !.secrets = {}, !.tokens = {},
                               !.display = 1],
             [MCInitial EXCEPT !.emergency = "lost"]}
=============================================================================
