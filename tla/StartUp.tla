------------------------------ MODULE StartUp ------------------------------
(***************************************************************************)
(* What the program does with its configuration and its command line: the  *)
(* databases it connects to, whether it bootstraps or follows the feeds,   *)
(* which of the two monitors it starts, from where and until when.         *)
(*                                                                         *)
(* An option that is not given is NotGiven, one that cannot be understood  *)
(* "bad".  --timestamp is "now" or "time", and then the time is o.time; a  *)
(* second one is o.until.                                                  *)
(***************************************************************************)
EXTENDS StartingFile

NotGiven == "not given"

Given(x) == x # NotGiven

-----------------------------------------------------------------------------
(* UnderpassConfig: the file default.yaml, then the environment, then what *)
(* the program has built in.                                               *)

DefaultServers == <<"planet.maps.mail.ru", "planet.openstreetmap.org">>

\* A key of the file counts when it is found at any depth, and then with its value
\* below "config".
FromFile(yaml, key, otherwise) ==
  IF ContainsKey(yaml, key) THEN GetValue(Get(yaml, "config"), key) ELSE otherwise

FromEnvironment(value, otherwise) == IF Given(value) THEN value ELSE otherwise

UnderpassConfig(yaml, env) ==
  LET servers == IF ContainsKey(yaml, "planet_servers")
                   THEN GetValues(Get(yaml, "config"), "planet_servers") ELSE <<>>
      value(key, builtin) == FromEnvironment(env[key], FromFile(yaml, key, builtin))
  IN  [ underpass_osm_db_url |-> value("underpass_osm_db_url", "localhost/underpass"),
        underpass_db_url |-> value("underpass_db_url", "localhost/underpass"),
        destdir_base |-> value("destdir_base", ""),
        planet_servers |-> IF servers = <<>> THEN DefaultServers ELSE servers,
        planet_server |-> FromEnvironment(env.planet_server, ""),
        datadir |-> "", concurrency |-> 1,
        frequency |-> IF Given(env.frequency) THEN FreqFromString(env.frequency)
                      ELSE "minutely" ]

-----------------------------------------------------------------------------
(* main.                                                                   *)

\* The options that replace a value of the configuration, in any run.  More cores than
\* the hardware has are only complained about.
WithOptions(config, o, hardware) ==
  [config EXCEPT
     !.underpass_osm_db_url = IF Given(o.rawdb) THEN o.rawdb ELSE @,
     !.underpass_db_url = IF Given(o.server) THEN o.server ELSE @,
     !.destdir_base = IF Given(o.destdir_base) THEN o.destdir_base ELSE @,
     !.concurrency = IF Given(o.concurrency) THEN o.concurrency ELSE hardware]

Replicates(o) == Given(o.timestamp) \/ Given(o.url) \/ Given(o.changeseturl)

FrequencyOf(letter) == [m |-> "minutely", h |-> "hourly", d |-> "daily"][letter]

\* Those of a run that replicates.  The environment goes before the option of datadir;
\* without the option planet, the first server goes before the environment.
WithFeed(config, o, datadir) ==
  [config EXCEPT
     !.planet_server = IF Given(o.planet) THEN o.planet ELSE Head(config.planet_servers),
     !.datadir = FromEnvironment(datadir, IF Given(o.datadir) THEN o.datadir ELSE "replication/"),
     !.frequency = IF Given(o.frequency) THEN FrequencyOf(o.frequency) ELSE @]

\* What ends the program before a thread is started.
Refused(o) ==
  \/ o.concurrency = "bad"
  \/ /\ Replicates(o)
     /\ \/ o.frequency = "bad"
        \/ Given(o.url) /\ Given(o.timestamp)
        \/ o.timestamp = "bad"
        \/ o.timestamp = "time" /\ o.until = "bad"

\* The second timestamp is looked at only when the first is a time.
EndTime(o) == IF o.timestamp = "time" THEN o.until ELSE NotGiven

\* Mutant of StartsChanges: a changeset URL alone is enough.
StartsChangesAnyway(o) == ~Given(o.changesets) \/ Given(o.changeseturl)

StartsChanges(o) ==
  \/ ~Given(o.changesets) /\ ~Given(o.changeseturl)
  \/ Given(o.changeseturl) /\ (Given(o.timestamp) \/ Given(o.url))

StartsChangesets(o) == Given(o.changeseturl) /\ ~Given(o.osmchanges)

Boundary(disabled) == IF Given(disabled) THEN "everywhere" ELSE "boundary"

\* The starting file of the OsmChange monitor: by the time, or the one that is given,
\* which is below "replication" whatever datadir is.  now is the clock.
ChangesFrom(config, o, listing, now, beyond) ==
  IF Given(o.timestamp)
    THEN FindRemotePath(config, listing, IF o.timestamp = "now" THEN now ELSE o.time, beyond)
  ELSE { [ server |-> config.planet_server, datadir |-> "replication/",
           frequency |-> FreqToString[config.frequency], file |-> o.url,
           suffix |-> ".osc.gz" ] }

ChangesetsFrom(config, o) ==
  [ server |-> config.planet_server, datadir |-> "replication/", frequency |-> "changesets",
    file |-> o.changeseturl, suffix |-> ".osm.gz" ]

NoMonitor == [started |-> FALSE]

\* A RemoteURL that was never parsed.
NoRemote == [server |-> ""]

ChangesMonitor(config, o, listing, now, beyond) ==
  IF ~StartsChanges(o) THEN {NoMonitor}
  ELSE { [ started |-> TRUE, from |-> from, until |-> EndTime(o),
           area |-> Boundary(o.osmnoboundary) ] :
         from \in IF Given(o.timestamp) \/ Given(o.url)
                    THEN ChangesFrom(config, o, listing, now, beyond) ELSE {NoRemote} }

\* A path that is not three numbers throws, which no one catches.
ChangesetsMonitor(config, o) ==
  IF ~StartsChangesets(o) THEN NoMonitor
  ELSE [ started |-> TRUE, from |-> ChangesetsFrom(config, o), until |-> EndTime(o),
         area |-> Boundary(o.oscnoboundary) ]

\* The run a command line leads to: any of a set.
Run(yaml, env, o, hardware, listing, now, beyond) ==
  LET config == WithOptions(UnderpassConfig(yaml, env), o, hardware)
      feeds == WithFeed(config, o, env.datadir)
      bare(does) == [does |-> does, config |-> config, changes |-> NoMonitor,
                     changesets |-> NoMonitor]
  IN  IF Refused(o) THEN {bare("fail")}
      ELSE IF Replicates(o)
        THEN { [ does |-> IF o.changeseturl = "bad" /\ StartsChangesets(o) THEN "crash"
                          ELSE "replicate",
                 config |-> feeds, changes |-> changes,
                 changesets |-> ChangesetsMonitor(feeds, o) ] :
               changes \in ChangesMonitor(feeds, o, listing, now, beyond) }
      ELSE IF Given(o.bootstrap) THEN {bare("bootstrap")}
      ELSE {bare("help")}

-----------------------------------------------------------------------------
(* What it should be.                                                      *)

\* A monitor always has a file to start at, a window only with a start of its own, and
\* --url, --timestamp or --changeseturl always start one, but for two combinations
\* where the program comes to its end at once: --changesets without a changeset URL,
\* and --osmchanges with nothing else.
MonitorsAsTold(run, o) ==
  run.does = "replicate" =>
    /\ run.changes.started => run.changes.from # NoRemote
    /\ run.changes.started \/ run.changesets.started
       \/ (Given(o.changesets) /\ ~Given(o.changeseturl))
       \/ (Given(o.osmchanges) /\ ~Given(o.timestamp) /\ ~Given(o.url))
    /\ Given(o.osmchanges) => ~run.changesets.started
    /\ Given(o.changesets) /\ run.changes.started => Given(o.changeseturl)

\* The last word has the command line, then the environment, then the file; with one
\* exception, the planet server of the environment, which is never used.
ConfiguredAsTold(run, o, env, yaml) ==
  LET told(option, variable, key) ==
        IF Given(option) THEN option
        ELSE IF Given(variable) THEN variable
        ELSE GetValue(Get(yaml, "config"), key)
  IN  /\ run.config.underpass_db_url = told(o.server, env.underpass_db_url, "underpass_db_url")
      /\ run.config.underpass_osm_db_url
           = told(o.rawdb, env.underpass_osm_db_url, "underpass_osm_db_url")
      /\ run.config.destdir_base = told(o.destdir_base, env.destdir_base, "destdir_base")
      /\ run.does = "replicate" =>
           run.config.planet_server = told(o.planet, NotGiven, "planet_servers")
=============================================================================
