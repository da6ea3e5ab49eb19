----------------------------- MODULE SelfUpdate -----------------------------
(***************************************************************************)
(* How an installed nook learns of new releases and replaces itself: the   *)
(* cache of the latest release that every command reads and refills, the   *)
(* verified download and, on Unix, the replacement of the binary (Windows  *)
(* leaves it to a script, see DeferredUpdate).                             *)
(***************************************************************************)
EXTENDS Naturals, FiniteSets

CONSTANTS
    Commands,     \* processes running nook, concurrently
    MaxRelease    \* releases are 1..MaxRelease; release 1 is installed first

ASSUME UpdateAssumption == MaxRelease \in Nat \ {0}

VARIABLES
    published,  \* the latest release
    installed,  \* the binary at the install path: its release, and is it whole
    cmd,        \* one record per process
    cache,      \* update-check.json: the release it names, or Missing, or Torn
    age,        \* its timestamp against the clock: ahead of it, fresh or stale
    temp,       \* update-check.json.tmp, one name for all processes
    handles,    \* where the cache file each process has open is now
    warned      \* releases some command announced as newer than itself

updateVars == <<published, installed, cmd, cache, age, temp, handles, warned>>

Missing == 0 - 2
Torn == 0 - 1
Unknown == 0              \* the empty string in the cache
Releases == 1..MaxRelease
Entry == {Missing, Torn, Unknown} \cup Releases

Goals == {"run", "update"}
Steps == {"idle", "load", "fetch", "truncate", "write", "rename",
          "install", "dead"}

\* running: the release this process is; latest: the one it read or fetched
Idle == [at |-> "idle", goal |-> "run", running |-> 1, latest |-> 0]

UpdateTypeOK ==
    /\ published \in Releases
    /\ installed \in [release : Releases, whole : BOOLEAN]
    /\ cmd \in [Commands -> [at : Steps, goal : Goals, running : Releases,
                             latest : {0} \cup Releases]]
    /\ cache \in Entry /\ temp \in Entry
    /\ age \in {"ahead", "fresh", "stale"}
    /\ handles \in [Commands -> {"temp", "cache", "lost"}]
    /\ warned \subseteq Releases

At(c, step) == cmd[c].at = step
Go(c, step) == cmd' = [cmd EXCEPT ![c].at = step]
Finish(c) == [cmd EXCEPT ![c] = Idle]

-----------------------------------------------------------------------------
(* The cache.                                                              *)

\* load_cache: a file that does not parse is no cache; neither is none
Parsed == IF cache \in {Missing, Torn} THEN Unknown ELSE cache

\* version_is_newer, and the warning on stderr
Warned(latest, running) ==
    IF latest > running THEN warned \cup {latest} ELSE warned

\* A command starts: an ordinary one consults the cache, an update does not
StartCommand(c, goal) ==
    /\ At(c, "idle")
    /\ installed.whole
    /\ cmd' = [cmd EXCEPT ![c] =
                 [Idle EXCEPT !.at = IF goal = "run" THEN "load" ELSE "fetch",
                              !.goal = goal, !.running = installed.release]]
    /\ UNCHANGED <<published, installed, cache, age, temp, handles, warned>>

\* cached_or_fetch: a timestamp ahead of the clock counts as fresh
UseCache(c) ==
    /\ At(c, "load")
    /\ cache \notin {Missing, Torn} /\ age # "stale"
    /\ warned' = Warned(Parsed, cmd[c].running)
    /\ cmd' = Finish(c)
    /\ UNCHANGED <<published, installed, cache, age, temp, handles>>

\* Mutation of CacheExpired: a cache that does not parse ends the check.
CacheExpiredOrTorn(c) ==
    /\ At(c, "load")
    /\ cache \in {Missing, Torn} \/ age = "stale"
    /\ IF cache = Torn THEN cmd' = Finish(c) ELSE Go(c, "fetch")
    /\ UNCHANGED <<published, installed, cache, age, temp, handles, warned>>

CacheExpired(c) ==
    /\ At(c, "load")
    /\ cache \in {Missing, Torn} \/ age = "stale"
    /\ Go(c, "fetch")
    /\ UNCHANGED <<published, installed, cache, age, temp, handles, warned>>

FetchLatest(c) ==
    /\ At(c, "fetch")
    /\ cmd' = [cmd EXCEPT ![c].at = "truncate", ![c].latest = published]
    /\ UNCHANGED <<published, installed, cache, age, temp, handles, warned>>

\* Offline: a command keeps what the cache says now, with a new timestamp; an
\* update or a check ends with an error.
FetchFails(c) ==
    /\ At(c, "fetch")
    /\ cmd' = IF cmd[c].goal = "run"
              THEN [cmd EXCEPT ![c].at = "truncate", ![c].latest = Parsed]
              ELSE Finish(c)
    /\ UNCHANGED <<published, installed, cache, age, temp, handles, warned>>

\* store_cache: the temporary file is opened empty, written, and renamed
StoreTruncate(c) ==
    /\ At(c, "truncate")
    /\ temp' = Torn
    /\ handles' = [handles EXCEPT ![c] = "temp"]
    /\ Go(c, "write")
    /\ UNCHANGED <<published, installed, cache, age, warned>>

\* The bytes go to the file that was opened, wherever another process renamed
\* it meanwhile; over other bytes they may leave a tail that does not parse.
StoreWrite(c) ==
    /\ At(c, "write")
    /\ LET Written(old) == IF old = Torn THEN {cmd[c].latest} ELSE {cmd[c].latest, Torn}
       IN \/ handles[c] = "temp" /\ temp' \in Written(temp) /\ UNCHANGED <<cache, age>>
          \/ handles[c] = "cache" /\ cache' \in Written(cache) /\ age' = "fresh"
                                     /\ UNCHANGED temp
          \/ handles[c] = "lost" /\ UNCHANGED <<temp, cache, age>>
    /\ handles' = [handles EXCEPT ![c] = "lost"]
    /\ Go(c, "rename")
    /\ UNCHANGED <<published, installed, warned>>

\* The rename fails if another process renamed the shared name first.  Files
\* others have open move with it, and the cache they replace is lost to its
\* writers.
StoreRename(c) ==
    IF temp = Missing
    THEN UNCHANGED <<cache, temp, age>> /\ handles' = handles
    ELSE /\ cache' = temp
         /\ age' = "fresh"
         /\ temp' = Missing
         /\ handles' = [d \in Commands |-> CASE handles[d] = "temp" -> "cache"
                                            [] handles[d] = "cache" -> "lost"
                                            [] OTHER -> handles[d]]

\* Whatever came of the store, a command announces a newer release; an update
\* that is not only a check goes on if the release is newer, or forced.
StoreAndCompare(c) ==
    /\ At(c, "rename")
    /\ StoreRename(c)
    /\ LET newer == cmd[c].latest > cmd[c].running
       IN \E force, check \in BOOLEAN :
            IF cmd[c].goal = "update" /\ ~check /\ (newer \/ force)
            THEN Go(c, "install") /\ UNCHANGED warned
            ELSE cmd' = Finish(c) /\ warned' = Warned(cmd[c].latest, cmd[c].running)
    /\ UNCHANGED <<published, installed>>

-----------------------------------------------------------------------------
(* The replacement of the binary.                                          *)

\* The archive arrives as published or damaged; its SHA-256 is compared with
\* the published checksum.
Verified(archive) == archive = "good"

\* Nothing to install: the download, its checksum, the extraction of the
\* binary or the writing of its temporary file failed.
UpdateFails(c) ==
    /\ At(c, "install")
    /\ cmd' = Finish(c)
    /\ UNCHANGED <<published, installed, cache, age, temp, handles, warned>>

\* install_latest and, on Unix, replace_binary: a file of a unique name,
\* written and synced, is renamed over the binary.
InstallLatest(c) ==
    /\ At(c, "install")
    /\ \E archive \in {"good", "bad"} :
         /\ Verified(archive)
         /\ installed' = [release |-> cmd[c].latest, whole |-> archive = "good"]
    /\ cmd' = Finish(c)
    /\ UNCHANGED <<published, cache, age, temp, handles, warned>>

-----------------------------------------------------------------------------
(* The world: releases, the clock, crashes.                                *)

Publish ==
    /\ published < MaxRelease
    /\ published' = published + 1
    /\ UNCHANGED <<installed, cmd, cache, age, temp, handles, warned>>

ClockAdvances ==
    /\ age # "stale"
    /\ age' = IF age = "ahead" THEN "fresh" ELSE "stale"
    /\ UNCHANGED <<published, installed, cmd, cache, temp, handles, warned>>

ClockSetBack ==
    /\ age = "fresh"
    /\ age' = "ahead"
    /\ UNCHANGED <<published, installed, cmd, cache, temp, handles, warned>>

\* A command is killed; its terminal is not used again, another one is
CommandDies(c) ==
    /\ ~At(c, "idle") /\ ~At(c, "dead")
    /\ \E d \in Commands \ {c} : ~At(d, "dead")
    /\ cmd' = [cmd EXCEPT ![c] = [Idle EXCEPT !.at = "dead"]]
    /\ handles' = [handles EXCEPT ![c] = "lost"]
    /\ UNCHANGED <<published, installed, cache, age, temp, warned>>

-----------------------------------------------------------------------------
UpdateInit ==
    /\ published = 1
    /\ installed = [release |-> 1, whole |-> TRUE]
    /\ cmd = [c \in Commands |-> Idle]
    /\ cache = Missing /\ temp = Missing
    /\ age = "stale"
    /\ handles = [c \in Commands |-> "lost"]
    /\ warned = {}

CommandStep(c) ==
    \/ UseCache(c) \/ CacheExpired(c) \/ FetchLatest(c)
    \/ StoreTruncate(c) \/ StoreWrite(c) \/ StoreAndCompare(c)
    \/ InstallLatest(c)

UpdateNext ==
    \/ \E c \in Commands :
         \/ \E goal \in Goals : StartCommand(c, goal)
         \/ CommandStep(c) \/ FetchFails(c) \/ UpdateFails(c) \/ CommandDies(c)
    \/ Publish \/ ClockAdvances \/ ClockSetBack

\* Users keep running ordinary commands, which go on unless killed, and some
\* of which find the network up; the clock moves on, set back or not.
UpdateFairness ==
    /\ \A c \in Commands : WF_updateVars(CommandStep(c) \/ UpdateFails(c))
    /\ SF_updateVars(\E c \in Commands : StartCommand(c, "run"))
    /\ SF_updateVars(\E c \in Commands : cmd[c].goal = "run" /\ FetchLatest(c))
    /\ WF_updateVars(ClockAdvances)
    /\ SF_updateVars(age = "fresh" /\ ClockAdvances)

UpdateSpec == UpdateInit /\ [][UpdateNext]_updateVars /\ UpdateFairness

-----------------------------------------------------------------------------
\* A release does not stay unknown: some command announces it, or it has been
\* installed or superseded, though offline commands renew the old answer.
ReleaseNoticed ==
    \A v \in 2..MaxRelease :
        published = v ~> (v \in warned \/ installed.release >= v \/ published > v)
=============================================================================
